---- MODULE Spec2Model ----
(***************************************************************************)
(* Model of the transaction-analytics pipeline: the three normalizers      *)
(* (DataLoader.convert_to_usd, FraudAnalyzer._convert_to_usd,              *)
(* BusinessInsightsAnalyzer._convert_to_usd), the calendar features they   *)
(* derive, and the metric bundles computed over the normalized table.      *)
(*                                                                         *)
(* Numbers.  A pandas float is modelled as an exact fraction [n, d] in     *)
(* lowest terms with d > 0; d = 0 encodes the IEEE specials: 0/0 is NaN    *)
(* (pandas' null), 1/0 is +inf, -1/0 is -inf.  Floating-point rounding of  *)
(* finite values is not modelled.                                          *)
(*                                                                         *)
(* Time.  A timestamp is a whole number of hours since 1970-01-01 00:00,   *)
(* a calendar date is a whole number of days since 1970-01-01 (Thursday).  *)
(***************************************************************************)
EXTENDS Integers, Sequences, FiniteSets, TLC

\* ------------------------------------------------------------------ bounds
MaxTxn == 2          \* rows of the transaction file
MaxRates == 2        \* rows of the exchange-rate file
MaxMetricsTxn == 3   \* rows of the transaction file of the metric inputs
MaxDays == 8         \* calendar dates of the growth inputs
MaxCustomers == 10   \* customers of the quantile inputs
MaxRunTxn == 2       \* rows of the transaction file of a script run

\* ------------------------------------------------------- numbers (floats)
Abs(x) == IF x < 0 THEN -x ELSE x

Sign(x) == IF x < 0 THEN -1 ELSE IF x > 0 THEN 1 ELSE 0

RECURSIVE Gcd(_, _)
Gcd(a, b) == IF b = 0 THEN a ELSE Gcd(b, a % b)

\* the float n/d, in lowest terms; x/0 is nan, inf or -inf
Num(n, d) ==
    IF d = 0 THEN [n |-> Sign(n), d |-> 0]
    ELSE LET g == Gcd(Abs(n), Abs(d))
         IN  [n |-> Sign(d) * (n \div g), d |-> Abs(d) \div g]

NaN == [n |-> 0, d |-> 0]

Zero == [n |-> 0, d |-> 1]

\* pd.notna(x)
notna(x) == x # NaN

\* a / b on floats: nan propagates, x/0 is +-inf (0/0 is nan), x/inf is 0
FloatDiv(a, b) ==
    IF a = NaN \/ b = NaN THEN NaN
    ELSE IF a.d = 0 /\ b.d = 0 THEN NaN
    ELSE IF a.d = 0 THEN Num(a.n * (IF b.n < 0 THEN -1 ELSE 1), 0)
    ELSE IF b.d = 0 THEN Zero
    ELSE IF b.n = 0 THEN Num(Sign(a.n), 0)
    ELSE Num(a.n * b.d * Sign(b.n), a.d * Abs(b.n))

\* a * b on floats
FloatMul(a, b) ==
    IF a = NaN \/ b = NaN THEN NaN
    ELSE IF (a.d = 0 /\ b.n = 0) \/ (b.d = 0 /\ a.n = 0) THEN NaN
    ELSE Num(a.n * b.n, a.d * b.d)

\* a + b on floats
FloatAdd(a, b) ==
    IF a = NaN \/ b = NaN THEN NaN
    ELSE IF a.d = 0 /\ b.d = 0 THEN (IF a.n = b.n THEN a ELSE NaN)
    ELSE IF a.d = 0 THEN a
    ELSE IF b.d = 0 THEN b
    ELSE Num(a.n * b.d + b.n * a.d, a.d * b.d)

\* a - b on floats
FloatSub(a, b) == FloatAdd(a, [b EXCEPT !.n = -b.n])

\* a < b on floats; false when either is nan
FloatLess(a, b) ==
    IF a = NaN \/ b = NaN THEN FALSE
    ELSE IF a.d = 0 /\ b.d = 0 THEN a.n < b.n
    ELSE IF a.d = 0 THEN a.n < 0
    ELSE IF b.d = 0 THEN b.n > 0
    ELSE a.n * b.d < b.n * a.d

RECURSIVE Pow2(_)
Pow2(k) == IF k = 0 THEN 1 ELSE 2 * Pow2(k - 1)

RECURSIVE Pow10(_)
Pow10(k) == IF k = 0 THEN 1 ELSE 10 * Pow10(k - 1)

\* round(x, k): to k decimals, ties to even; nan and inf stay
round(x, k) ==
    IF x.d = 0 THEN x
    ELSE LET scaled == x.n * Pow10(k)
             q == scaled \div x.d
             r == scaled - q * x.d
             up == (2 * r > x.d) \/ (2 * r = x.d /\ q % 2 = 1)
         IN  Num(IF up THEN q + 1 ELSE q, Pow10(k))

\* --------------------------------------------------------------- calendar
HoursPerDay == 24

\* Series.dt.date: the timestamp truncated to its calendar date
DateOf(ts) == ts \div HoursPerDay

\* Series.dt.hour
HourOf(ts) == ts % HoursPerDay

\* Series.dt.dayofweek: 0 = Monday .. 6 = Sunday; day 0 (1970-01-01) is a Thursday
EpochDayOfWeek == 3

DayOfWeek(ts) == (DateOf(ts) + EpochDayOfWeek) % 7

\* ------------------------------------------------------------ the tables
\* the currency codes convert_amount knows (data_loader.py:94-96)
ReferenceCurrency == "USD"

\* mutant: a code missing from the list
SupportedCurrenciesWithoutEUR ==
    {"AUD", "BRL", "CAD", "GBP", "JPY", "MXN", "NGN", "RUB", "SGD"}

SupportedCurrencies ==
    {"AUD", "BRL", "CAD", "EUR", "GBP", "JPY", "MXN", "NGN", "RUB", "SGD"}

\* a null currency code (None in the currency column)
NullCode == "<null>"

\* last_hour_activity of a row: the nested structure, or None
NoActivity == <<>>

Activity(merchants) ==
    [unique_merchants |-> Num(merchants, 1), num_transactions |-> Num(3, 1),
     total_amount |-> Num(100, 1)]

\* A row of the transaction file.  The columns the arguments do not set hold
\* the values of a card-not-present web purchase at an ordinary vendor.
Txn(ts, cur, amt, fraud, customer, country, vendor, activity) ==
    [timestamp |-> ts, currency |-> cur, amount |-> amt, is_fraud |-> fraud,
     customer_id |-> customer, country |-> country, vendor_category |-> vendor,
     last_hour_activity |-> activity,
     device |-> "Chrome", channel |-> "web", is_card_present |-> FALSE,
     is_high_risk_vendor |-> FALSE]

\* a row of customer c1 in country A buying at a vendor of category v1
TxnRow(ts, cur, amt, fraud) == Txn(ts, cur, amt, fraud, "c1", "A", "v1", Activity(2))

\* the rate columns of the exchange-rate file: one per foreign currency
RateColumns ==
    {"AUD", "BRL", "CAD", "EUR", "GBP", "JPY", "MXN", "NGN", "RUB", "SGD"}

\* A row of the exchange-rate file: a date (possibly with a time of day) and
\* the rate columns.
RateRow(d, eur) ==
    [date |-> d,
     rates |-> [c \in RateColumns |-> IF c = "EUR" THEN eur ELSE Num(1, 1)]]

\* the rate columns of a left-merged row that matched no rate row
NoRates == [c \in RateColumns |-> NaN]

RECURSIVE SeqMap(_, _)
SeqMap(F(_), s) == IF s = <<>> THEN <<>> ELSE <<F(Head(s))>> \o SeqMap(F, Tail(s))

RECURSIVE SeqFilter(_, _)
SeqFilter(P(_), s) ==
    IF s = <<>> THEN <<>>
    ELSE (IF P(Head(s)) THEN <<Head(s)>> ELSE <<>>) \o SeqFilter(P, Tail(s))

RECURSIVE SeqConcat(_)
SeqConcat(ss) == IF ss = <<>> THEN <<>> ELSE Head(ss) \o SeqConcat(Tail(ss))

\* pd.read_parquet of the transaction file: the rows, indexed 1..n.  txn is
\* the row's position in the file (the DataFrame index): it names the
\* transaction in the statements below and no operation reads it.
ReadTransactions(file) == [i \in 1..Len(file) |-> file[i] @@ [txn |-> i]]

\* exchange_df['date'] = pd.to_datetime(exchange_df['date']).dt.date
RateDates(xdf) == [i \in 1..Len(xdf) |-> [xdf[i] EXCEPT !.date = DateOf(xdf[i].date)]]

\* df.merge(exchange_df, on='date', how='left'): every left row once per
\* right row of the same date, in left order then right order; a left row
\* without a match once, with null rate columns.  rate_row is the position
\* of the matched rate row (0: none); no operation reads it.
\* mutant: how='inner', a row without a match is lost
MergeRowInner(row, xdf) ==
    LET hits == SeqFilter(LAMBDA j : xdf[j].date = row.date, [j \in 1..Len(xdf) |-> j])
    IN  [k \in 1..Len(hits) |->
            row @@ [rates |-> xdf[hits[k]].rates, rate_row |-> hits[k]]]

MergeRow(row, xdf) ==
    LET hits == SeqFilter(LAMBDA j : xdf[j].date = row.date, [j \in 1..Len(xdf) |-> j])
    IN  IF hits = <<>> THEN << row @@ [rates |-> NoRates, rate_row |-> 0] >>
        ELSE [k \in 1..Len(hits) |->
                 row @@ [rates |-> xdf[hits[k]].rates, rate_row |-> hits[k]]]

\* mutant: a row without a match takes the rate row of the adjacent day
merge_nearest(df, xdf) ==
    LET Near(row) ==
            LET hits == SeqFilter(LAMBDA j : Abs(xdf[j].date - row.date) <= 1,
                                  [j \in 1..Len(xdf) |-> j])
            IN  IF hits = <<>> THEN << row @@ [rates |-> NoRates, rate_row |-> 0] >>
                ELSE [k \in 1..Len(hits) |->
                         row @@ [rates |-> xdf[hits[k]].rates, rate_row |-> hits[k]]]
    IN  SeqConcat([i \in 1..Len(df) |-> Near(df[i])])

merge(df, xdf) == SeqConcat([i \in 1..Len(df) |-> MergeRow(df[i], xdf)])

\* None, the value convert_amount returns for an unconvertible row; in the
\* amount_usd column it is a null like NaN
None == NaN

\* what a call of the row function does: it returns a value, or row[currency]
\* raises KeyError when the merged row has no such column
Return(v) == [raised |-> FALSE, value |-> v]

RaiseKeyError == [raised |-> TRUE, value |-> NaN]

\* merged_df['amount_usd'] = merged_df.apply(f, axis=1): the column of the
\* returned values; an exception of f ends the apply
apply(f(_), df) ==
    LET calls == SeqMap(f, df)
    IN  IF \E i \in 1..Len(calls) : calls[i].raised
        THEN [status |-> "KeyError: currency", table |-> <<>>]
        ELSE [status |-> "ok",
              table |-> [i \in 1..Len(df) |-> df[i] @@ [amount_usd |-> calls[i].value]]]

\* mutant: nothing is dropped
dropna_nothing(df) == df

\* merged_df.dropna(subset=['amount_usd'])
dropna(df) == SeqFilter(LAMBDA r : notna(r.amount_usd), df)

\* ------------------------------------------------------------- aggregates
\* df[mask]: the rows that satisfy P
Where(df, P(_)) == SeqFilter(P, df)

\* Series.sum() of the amount_usd column; 0 for an empty column
RECURSIVE SumAmountUsd(_)
SumAmountUsd(df) ==
    IF df = <<>> THEN Zero ELSE FloatAdd(Head(df).amount_usd, SumAmountUsd(Tail(df)))

\* Series.mean() of the amount_usd column; nan for an empty column
MeanAmountUsd(df) ==
    IF df = <<>> THEN NaN ELSE FloatDiv(SumAmountUsd(df), Num(Len(df), 1))

\* df['is_fraud'].sum(): the number of rows flagged as fraud
FraudCount(df) == Len(Where(df, LAMBDA r : r.is_fraud))

\* mutant: the fraud rows are counted against the legitimate rows
FraudRateAgainstLegit(df) ==
    IF df = <<>> THEN NaN ELSE Num(FraudCount(df), Len(df) - FraudCount(df))

\* df['is_fraud'].mean(): the fraud rate; nan for an empty table
FraudRate(df) == IF df = <<>> THEN NaN ELSE Num(FraudCount(df), Len(df))

\* df[column].nunique()
NUnique(df, Key(_)) == Cardinality({Key(df[k]) : k \in 1..Len(df)})

\* df.groupby(key)['is_fraud'].mean(): the fraud rate of every group present
GroupFraudRates(df, Key(_)) ==
    [g \in {Key(df[k]) : k \in 1..Len(df)} |-> FraudRate(Where(df, LAMBDA r : Key(r) = g))]

\* df.groupby(key)['amount_usd'].sum()
GroupSums(df, Key(_)) ==
    [g \in {Key(df[k]) : k \in 1..Len(df)} |->
        SumAmountUsd(Where(df, LAMBDA r : Key(r) = g))]

\* Series.max(); nan for an empty series
FloatMax(S) ==
    IF S = {} THEN NaN
    ELSE LET x == CHOOSE y \in S : \A z \in S : ~FloatLess(y, z)
         IN  x

\* the values of a series in ascending order
RECURSIVE SortFloats(_)
SortFloats(f) ==
    IF DOMAIN f = {} THEN <<>>
    ELSE LET k == CHOOSE a \in DOMAIN f : \A b \in DOMAIN f : ~FloatLess(f[b], f[a])
         IN  <<f[k]>> \o SortFloats([b \in DOMAIN f \ {k} |-> f[b]])

\* mutant: the quantile is the order statistic below the position
QuantileLower(f, qn, qd) ==
    LET v == SortFloats(f)
        n == Len(v)
        lo == ((n - 1) * qn) \div qd
    IN  IF n = 0 THEN NaN ELSE v[lo + 1]

\* Series.quantile(qn / qd): linear interpolation between the order
\* statistics around position (n - 1) * q; nan for an empty series
Quantile(f, qn, qd) ==
    LET v == SortFloats(f)
        n == Len(v)
        lo == ((n - 1) * qn) \div qd
        part == ((n - 1) * qn) % qd
    IN  IF n = 0 THEN NaN
        ELSE IF part = 0 THEN v[lo + 1]
        ELSE FloatAdd(v[lo + 1],
                      FloatMul(Num(part, qd), FloatSub(v[lo + 2], v[lo + 1])))

\* ------------------------------------------------------------- DataLoader
\* lambda x: x[key] if x and key in x else None
ActivityField(x, key) == IF key \in DOMAIN x THEN x[key] ELSE None

\* mutant: the weekend is taken to be days 6 and 7
LoaderFeaturesWeekendShifted(row) ==
    row @@ [date |-> DateOf(row.timestamp),
            hour |-> HourOf(row.timestamp),
            day_of_week |-> DayOfWeek(row.timestamp),
            is_weekend |-> DayOfWeek(row.timestamp) \in {6, 7},
            is_night |-> (HourOf(row.timestamp) >= 22) \/ (HourOf(row.timestamp) <= 6),
            unique_merchants |-> ActivityField(row.last_hour_activity, "unique_merchants"),
            num_transactions_last_hour |->
                ActivityField(row.last_hour_activity, "num_transactions"),
            total_amount_last_hour |-> ActivityField(row.last_hour_activity, "total_amount")]

\* DataLoader.preprocess_data, lines 52-72: the columns added to self.df
LoaderFeatures(row) ==
    row @@ [date |-> DateOf(row.timestamp),
            hour |-> HourOf(row.timestamp),
            day_of_week |-> DayOfWeek(row.timestamp),
            is_weekend |-> DayOfWeek(row.timestamp) \in {5, 6},
            is_night |-> (HourOf(row.timestamp) >= 22) \/ (HourOf(row.timestamp) <= 6),
            unique_merchants |-> ActivityField(row.last_hour_activity, "unique_merchants"),
            num_transactions_last_hour |->
                ActivityField(row.last_hour_activity, "num_transactions"),
            total_amount_last_hour |-> ActivityField(row.last_hour_activity, "total_amount")]

\* mutant: the amount is multiplied by the rate
convert_amount_multiplying(row) ==
    IF row.currency = ReferenceCurrency THEN Return(row.amount)
    ELSE IF row.currency \in SupportedCurrencies
         THEN IF row.currency \notin DOMAIN row.rates THEN RaiseKeyError
              ELSE LET exchange_rate == row.rates[row.currency]
                   IN  IF notna(exchange_rate) /\ exchange_rate # Zero
                       THEN Return(FloatMul(row.amount, exchange_rate))
                       ELSE Return(None)
         ELSE Return(None)

\* convert_amount(row) of DataLoader.convert_to_usd
convert_amount(row) ==
    IF row.currency = ReferenceCurrency THEN Return(row.amount)
    ELSE IF row.currency \in SupportedCurrencies
         THEN IF row.currency \notin DOMAIN row.rates THEN RaiseKeyError
              ELSE LET exchange_rate == row.rates[row.currency]
                   IN  IF notna(exchange_rate) /\ exchange_rate # Zero
                       THEN Return(FloatDiv(row.amount, exchange_rate))
                       ELSE Return(None)
         ELSE Return(None)

\* DataLoader.convert_to_usd, lines 88-103, on a preprocessed loader
LoaderConvert(df, xdf) ==
    LET applied == apply(convert_amount, merge(df, xdf))
    IN  IF applied.status = "ok"
        THEN [status |-> "ok", table |-> dropna(applied.table)]
        ELSE applied

\* the dict get_basic_stats builds over df, lines 124-140.  value_counts
\* leaves null codes out; of an empty table the extremes are NaT and the
\* fraud rate is nan.
BasicStats(df) ==
    LET times == {df[k].timestamp : k \in 1..Len(df)}
        start == CHOOSE t \in times : \A u \in times : t <= u
        end == CHOOSE t \in times : \A u \in times : u <= t
        codes == {df[k].currency : k \in 1..Len(df)} \ {NullCode}
    IN  [status |-> "ok",
         total_transactions |-> Len(df),
         unique_customers |-> NUnique(df, LAMBDA r : r.customer_id),
         date_range |->
            IF df = <<>> THEN [start |-> "NaT", end |-> "NaT", days |-> NaN]
            ELSE [start |-> start, end |-> end,
                  days |-> Num((end - start) \div HoursPerDay, 1)],
         fraud_stats |->
            [total_fraud |-> FraudCount(df),
             fraud_rate |-> FraudRate(df),
             fraud_percentage |-> FloatMul(FraudRate(df), Num(100, 1))],
         currencies |->
            [c \in codes |-> Len(Where(df, LAMBDA r : r.currency = c))],
         countries |-> NUnique(df, LAMBDA r : r.country),
         vendor_categories |-> NUnique(df, LAMBDA r : r.vendor_category)]

\* ---------------------------------------------------------- FraudAnalyzer
\* mutant: the night ends before hour 6
FraudFeaturesNightBefore6(row) ==
    row @@ [date |-> DateOf(row.timestamp),
            hour |-> HourOf(row.timestamp),
            day_of_week |-> DayOfWeek(row.timestamp),
            is_night |-> (HourOf(row.timestamp) >= 22) \/ (HourOf(row.timestamp) < 6)]

\* FraudAnalyzer._prepare_data, lines 28-35: the columns added to self.df
FraudFeatures(row) ==
    row @@ [date |-> DateOf(row.timestamp),
            hour |-> HourOf(row.timestamp),
            day_of_week |-> DayOfWeek(row.timestamp),
            is_night |-> (HourOf(row.timestamp) >= 22) \/ (HourOf(row.timestamp) <= 6)]

\* mutant: a zero rate is not rejected
fraud_convert_dividing_by_zero(row) ==
    IF row.currency = ReferenceCurrency THEN Return(row.amount)
    ELSE IF row.currency \in SupportedCurrencies
         THEN IF row.currency \notin DOMAIN row.rates THEN RaiseKeyError
              ELSE LET exchange_rate == row.rates[row.currency]
                   IN  IF notna(exchange_rate)
                       THEN Return(FloatDiv(row.amount, exchange_rate))
                       ELSE Return(None)
         ELSE Return(None)

\* mutant: the amount is multiplied by the rate
fraud_convert_multiplying(row) ==
    IF row.currency = ReferenceCurrency THEN Return(row.amount)
    ELSE IF row.currency \in SupportedCurrencies
         THEN IF row.currency \notin DOMAIN row.rates THEN RaiseKeyError
              ELSE LET exchange_rate == row.rates[row.currency]
                   IN  IF notna(exchange_rate) /\ exchange_rate # Zero
                       THEN Return(FloatMul(row.amount, exchange_rate))
                       ELSE Return(None)
         ELSE Return(None)

\* convert_to_usd(row) of FraudAnalyzer._convert_to_usd
fraud_convert_to_usd(row) ==
    IF row.currency = ReferenceCurrency THEN Return(row.amount)
    ELSE IF row.currency \in SupportedCurrencies
         THEN IF row.currency \notin DOMAIN row.rates THEN RaiseKeyError
              ELSE LET exchange_rate == row.rates[row.currency]
                   IN  IF notna(exchange_rate) /\ exchange_rate # Zero
                       THEN Return(FloatDiv(row.amount, exchange_rate))
                       ELSE Return(None)
         ELSE Return(None)

\* FraudAnalyzer._convert_to_usd, lines 42-57
FraudConvert(df, xdf) ==
    LET applied == apply(fraud_convert_to_usd, merge(df, xdf))
    IN  IF applied.status = "ok"
        THEN [status |-> "ok", table |-> dropna(applied.table)]
        ELSE applied

\* the group keys present in a column, as groupby lists them
Groups(df, Key(_)) == {Key(df[k]) : k \in 1..Len(df)}

\* the orders in which the keys of S can be listed
Orderings(S) ==
    {s \in [1..Cardinality(S) -> S] : \A i, j \in 1..Cardinality(S) : s[i] = s[j] => i = j}

\* sort_values(column, ascending=False): the index in descending order of
\* the column.  The default sort is numpy's quicksort, which is not stable:
\* rows with equal values come out in an order the code does not fix, so
\* every descending order is a possible result.
Rankings(column) ==
    {s \in Orderings(DOMAIN column) :
        \A i, j \in 1..Len(s) : i < j => ~FloatLess(column[s[i]], column[s[j]])}

\* head(n)
head(s, n) == IF Len(s) <= n THEN s ELSE SubSeq(s, 1, n)

\* tail(n)
tail(s, n) == IF Len(s) <= n THEN s ELSE SubSeq(s, Len(s) - n + 1, Len(s))

\* mutant: the fraud count of a group is the count of its is_fraud values
country_fraud_stats_counting_values(df_usd) ==
    [g \in Groups(df_usd, LAMBDA r : r.country) |->
        LET rows == Where(df_usd, LAMBDA r : r.country = g)
        IN  [total_transactions |-> Len(rows),
             fraud_transactions |-> Len(rows),
             fraud_rate |-> round(FraudRate(rows), 3),
             total_volume_usd |-> round(SumAmountUsd(rows), 3)]]

\* groupby('country').agg({'is_fraud': ['count', 'sum', 'mean'],
\* 'amount_usd': 'sum'}).round(3), lines 97-102
country_fraud_stats(df_usd) ==
    [g \in Groups(df_usd, LAMBDA r : r.country) |->
        LET rows == Where(df_usd, LAMBDA r : r.country = g)
        IN  [total_transactions |-> Len(rows),
             fraud_transactions |-> FraudCount(rows),
             fraud_rate |-> round(FraudRate(rows), 3),
             total_volume_usd |-> round(SumAmountUsd(rows), 3)]]

\* metrics['geographic_risk'], lines 103-112; order is country_fraud_stats
\* after sort_values('fraud_transactions', ascending=False)
GeographicRisk(df_usd, order) ==
    LET stats == country_fraud_stats(df_usd)
        top == head(order, 5)
    IN  [top_risk_countries |-> [g \in {top[k] : k \in 1..Len(top)} |-> stats[g]],
         countries_with_fraud |->
            Cardinality({g \in DOMAIN stats : stats[g].fraud_transactions > 0}),
         high_risk_countries_count |->
            Cardinality({g \in DOMAIN stats : FloatLess(Num(3, 10), stats[g].fraud_rate)})]

\* groupby('hour')['is_fraud'].agg(['count', 'sum', 'mean']), line 115
hourly_fraud(df_usd) ==
    [g \in Groups(df_usd, LAMBDA r : r.hour) |->
        LET rows == Where(df_usd, LAMBDA r : r.hour = g)
        IN  [count |-> Len(rows), sum |-> FraudCount(rows), mean |-> FraudRate(rows)]]

\* hourly_fraud['mean'].idxmax(): the first hour of the highest rate
peak_fraud_hour(df_usd) ==
    LET h == hourly_fraud(df_usd)
        top == {g \in DOMAIN h : \A o \in DOMAIN h : ~FloatLess(h[g].mean, h[o].mean)}
    IN  CHOOSE g \in top : \A o \in top : g <= o

\* Series.median(): nulls are skipped; nan when nothing is left
Median(values) ==
    LET present == SeqFilter(notna, values)
    IN  Quantile(present, 1, 2)

\* groupby('customer_id')['unique_merchants'].median(), line 137
customer_medians(df_usd) ==
    [g \in Groups(df_usd, LAMBDA r : r.customer_id) |->
        LET rows == Where(df_usd, LAMBDA r : r.customer_id = g)
        IN  Median([k \in 1..Len(rows) |->
                       ActivityField(rows[k].last_hour_activity, "unique_merchants")])]

\* the values of a series that are not null, in index order
Present(series) ==
    LET RECURSIVE List(_)
        List(S) == IF S = {} THEN <<>>
                   ELSE LET g == CHOOSE a \in S : TRUE
                        IN  (IF notna(series[g]) THEN <<series[g]>> ELSE <<>>)
                            \o List(S \ {g})
    IN  List(DOMAIN series)

RECURSIVE SumFloats(_)
SumFloats(values) ==
    IF values = <<>> THEN Zero ELSE FloatAdd(Head(values), SumFloats(Tail(values)))

\* Series.mean(): nulls are skipped; nan when nothing is left
Mean(values) ==
    IF values = <<>> THEN NaN ELSE FloatDiv(SumFloats(values), Num(Len(values), 1))

\* customer_medians.quantile(0.95), line 139: nulls are skipped
quantile_95(df_usd) == Quantile(Present(customer_medians(df_usd)), 95, 100)

\* metrics['behavioral'], lines 139-154
Behavioral(df_usd) ==
    LET medians == customer_medians(df_usd)
        q95 == quantile_95(df_usd)
        high_activity_customer_ids == {g \in DOMAIN medians : FloatLess(q95, medians[g])}
        high_activity_customers == Cardinality(high_activity_customer_ids)
        high_activity_fraud_rate ==
            FraudRate(Where(df_usd, LAMBDA r : r.customer_id \in high_activity_customer_ids))
    IN  [high_activity_customers_count |-> high_activity_customers,
         high_activity_customers_percentage |->
            round(FloatMul(Num(high_activity_customers, Cardinality(DOMAIN medians)),
                           Num(100, 1)), 2),
         high_activity_fraud_rate |-> round(high_activity_fraud_rate, 3),
         median_unique_merchants_95th_percentile |-> round(q95, 1),
         avg_customer_unique_merchants |-> round(Mean(Present(medians)), 1)]

\* groupby('vendor_category').agg({'is_fraud': ['count', 'sum', 'mean'],
\* 'amount_usd': ['sum', 'mean']}).round(3), lines 157-162
vendor_analysis(df_usd) ==
    [g \in Groups(df_usd, LAMBDA r : r.vendor_category) |->
        LET rows == Where(df_usd, LAMBDA r : r.vendor_category = g)
        IN  [total_transactions |-> Len(rows),
             fraud_transactions |-> FraudCount(rows),
             fraud_rate |-> round(FraudRate(rows), 3),
             total_volume_usd |-> round(SumAmountUsd(rows), 3),
             avg_amount_usd |-> round(MeanAmountUsd(rows), 3)]]

\* metrics['vendor_risk'], lines 163-175; order is vendor_analysis after
\* sort_values('fraud_rate', ascending=False)
VendorRisk(df_usd, order) ==
    LET stats == vendor_analysis(df_usd)
        high_risk_vendor_fraud_rate ==
            FraudRate(Where(df_usd, LAMBDA r : r.is_high_risk_vendor))
        low_risk_vendor_fraud_rate ==
            FraudRate(Where(df_usd, LAMBDA r : ~r.is_high_risk_vendor))
    IN  [high_risk_vendor_fraud_rate |-> round(high_risk_vendor_fraud_rate, 3),
         low_risk_vendor_fraud_rate |-> round(low_risk_vendor_fraud_rate, 3),
         risk_vendor_multiplier |->
            round(FloatDiv(high_risk_vendor_fraud_rate, low_risk_vendor_fraud_rate), 2),
         riskiest_vendor_category |-> order[1],
         riskiest_category_fraud_rate |-> round(stats[order[1]].fraud_rate, 3)]

\* groupby('device')['is_fraud'].agg(['count', 'mean']), line 178
device_fraud(df_usd) ==
    [g \in Groups(df_usd, LAMBDA r : r.device) |->
        LET rows == Where(df_usd, LAMBDA r : r.device = g)
        IN  [count |-> Len(rows), mean |-> FraudRate(rows)]]

\* groupby('channel')['is_fraud'].agg(['count', 'mean']), line 179
channel_fraud(df_usd) ==
    [g \in Groups(df_usd, LAMBDA r : r.channel) |->
        LET rows == Where(df_usd, LAMBDA r : r.channel = g)
        IN  [count |-> Len(rows), mean |-> FraudRate(rows)]]

\* metrics['device_channel'], lines 181-188; the orders are device_fraud and
\* channel_fraud after sort_values('mean', ascending=False)
DeviceChannel(df_usd, devices, channels) ==
    [riskiest_device |-> devices[1],
     riskiest_device_fraud_rate |-> round(device_fraud(df_usd)[devices[1]].mean, 3),
     riskiest_channel |-> channels[1],
     riskiest_channel_fraud_rate |-> round(channel_fraud(df_usd)[channels[1]].mean, 3),
     card_present_fraud_rate |->
        round(FraudRate(Where(df_usd, LAMBDA r : r.is_card_present)), 3),
     card_not_present_fraud_rate |->
        round(FraudRate(Where(df_usd, LAMBDA r : ~r.is_card_present)), 3)]

\* metrics['potential_impact'], lines 192-200
PotentialImpact(df_usd) ==
    LET total_fraud_loss == SumAmountUsd(Where(df_usd, LAMBDA r : r.is_fraud = TRUE))
    IN  [potential_savings_50_percent_usd |->
            round(FloatMul(total_fraud_loss, Num(1, 2)), 2),
         potential_savings_80_percent_usd |->
            round(FloatMul(total_fraud_loss, Num(4, 5)), 2),
         monthly_fraud_loss_usd |->
            round(FloatMul(FloatDiv(total_fraud_loss, Num(31, 1)), Num(30, 1)), 2),
         annual_fraud_loss_projection_usd |->
            round(FloatMul(FloatDiv(total_fraud_loss, Num(31, 1)), Num(365, 1)), 2)]

\* self.df_usd[self.df_usd['is_fraud'] == True], line 66
FraudRows(df_usd) == Where(df_usd, LAMBDA r : r.is_fraud = TRUE)

\* mutant: the legitimate rows are taken without the is_fraud mask
LegitRowsUnmasked(df_usd) == df_usd

\* self.df_usd[self.df_usd['is_fraud'] == False], line 67
LegitRows(df_usd) == Where(df_usd, LAMBDA r : r.is_fraud = FALSE)

\* self.df_usd[self.df_usd['is_night']], line 118
NightTransactions(df_usd) == Where(df_usd, LAMBDA r : r.is_night)

\* self.df_usd[~self.df_usd['is_night']], line 119
DayTransactions(df_usd) == Where(df_usd, LAMBDA r : ~r.is_night)

\* mutant: the transaction counts are taken over self.df, dropped rows included
KeyBusinessMetricsOverDf(df, df_usd) ==
    LET fraud_df == Where(df_usd, LAMBDA r : r.is_fraud = TRUE)
        legit_df == Where(df_usd, LAMBDA r : r.is_fraud = FALSE)
        total_fraud_loss == SumAmountUsd(fraud_df)
        total_transaction_volume == SumAmountUsd(df_usd)
        total_transactions == Len(df)
        fraud_transactions == FraudCount(df)
        customers == NUnique(df_usd, LAMBDA r : r.customer_id)
        night_fraud_rate == FraudRate(Where(df_usd, LAMBDA r : r.is_night))
        day_fraud_rate == FraudRate(Where(df_usd, LAMBDA r : ~r.is_night))
    IN  IF df_usd = <<>> THEN [status |-> "ZeroDivisionError"]
        ELSE [status |-> "ok",
              financial |->
                [total_fraud_loss_usd |-> round(total_fraud_loss, 2),
                 total_transaction_volume_usd |-> round(total_transaction_volume, 2),
                 fraud_loss_percentage |->
                    round(FloatMul(FloatDiv(total_fraud_loss, total_transaction_volume),
                                   Num(100, 1)), 2),
                 average_fraud_amount_usd |-> round(MeanAmountUsd(fraud_df), 2),
                 average_legit_amount_usd |-> round(MeanAmountUsd(legit_df), 2),
                 fraud_amount_multiplier |->
                    round(FloatDiv(MeanAmountUsd(fraud_df), MeanAmountUsd(legit_df)), 2)],
              operational |->
                [total_transactions |-> total_transactions,
                 fraud_transactions |-> fraud_transactions,
                 fraud_rate_percentage |->
                    round(FloatMul(Num(fraud_transactions, total_transactions),
                                   Num(100, 1)), 2),
                 transactions_per_day |-> round(Num(total_transactions, 31), 0),
                 fraud_transactions_per_day |-> round(Num(fraud_transactions, 31), 0),
                 unique_customers |-> customers,
                 avg_transactions_per_customer |->
                    round(Num(total_transactions, customers), 1)],
              temporal_patterns |->
                [peak_fraud_hour |-> peak_fraud_hour(df_usd),
                 peak_fraud_rate |->
                    round(hourly_fraud(df_usd)[peak_fraud_hour(df_usd)].mean, 3),
                 night_fraud_rate |-> round(night_fraud_rate, 3),
                 day_fraud_rate |-> round(day_fraud_rate, 3),
                 night_vs_day_risk_ratio |->
                    round(FloatDiv(night_fraud_rate, day_fraud_rate), 2)]]

\* FraudAnalyzer.calculate_key_business_metrics, the bundle it returns: the
\* sections financial (lines 66-80) and operational (83-94) and the night
\* and day rates of temporal_patterns (118-127).  The integer division of
\* line 89 raises ZeroDivisionError on an empty table.  df is self.df, which
\* the method does not read.
KeyBusinessMetrics(df, df_usd) ==
    LET fraud_df == FraudRows(df_usd)
        legit_df == LegitRows(df_usd)
        total_fraud_loss == SumAmountUsd(fraud_df)
        total_transaction_volume == SumAmountUsd(df_usd)
        total_transactions == Len(df_usd)
        fraud_transactions == Len(fraud_df)
        customers == NUnique(df_usd, LAMBDA r : r.customer_id)
        night_fraud_rate == FraudRate(NightTransactions(df_usd))
        day_fraud_rate == FraudRate(DayTransactions(df_usd))
    IN  IF total_transactions = 0 THEN [status |-> "ZeroDivisionError"]
        ELSE [status |-> "ok",
              financial |->
                [total_fraud_loss_usd |-> round(total_fraud_loss, 2),
                 total_transaction_volume_usd |-> round(total_transaction_volume, 2),
                 fraud_loss_percentage |->
                    round(FloatMul(FloatDiv(total_fraud_loss, total_transaction_volume),
                                   Num(100, 1)), 2),
                 average_fraud_amount_usd |-> round(MeanAmountUsd(fraud_df), 2),
                 average_legit_amount_usd |-> round(MeanAmountUsd(legit_df), 2),
                 fraud_amount_multiplier |->
                    round(FloatDiv(MeanAmountUsd(fraud_df), MeanAmountUsd(legit_df)), 2)],
              operational |->
                [total_transactions |-> total_transactions,
                 fraud_transactions |-> fraud_transactions,
                 fraud_rate_percentage |->
                    round(FloatMul(Num(fraud_transactions, total_transactions),
                                   Num(100, 1)), 2),
                 transactions_per_day |-> round(Num(total_transactions, 31), 0),
                 fraud_transactions_per_day |-> round(Num(fraud_transactions, 31), 0),
                 unique_customers |-> customers,
                 avg_transactions_per_customer |->
                    round(Num(total_transactions, customers), 1)],
              temporal_patterns |->
                [peak_fraud_hour |-> peak_fraud_hour(df_usd),
                 peak_fraud_rate |->
                    round(hourly_fraud(df_usd)[peak_fraud_hour(df_usd)].mean, 3),
                 night_fraud_rate |-> round(night_fraud_rate, 3),
                 day_fraud_rate |-> round(day_fraud_rate, 3),
                 night_vs_day_risk_ratio |->
                    round(FloatDiv(night_fraud_rate, day_fraud_rate), 2)]]

\* mutant: the assignment of line 136 empties the column it reads
WithUniqueMerchantsEmptying(df_usd) ==
    [k \in 1..Len(df_usd) |->
        [unique_merchants |-> ActivityField(df_usd[k].last_hour_activity, "unique_merchants")]
            @@ [df_usd[k] EXCEPT !.last_hour_activity = NoActivity]]

\* line 136: self.df_usd['unique_merchants'] = ...apply(extract_unique_merchants)
WithUniqueMerchants(df_usd) ==
    [k \in 1..Len(df_usd) |->
        [unique_merchants |-> ActivityField(df_usd[k].last_hour_activity, "unique_merchants")]
            @@ df_usd[k]]

\* mutant: the rates are not divided by the highest rate
RiskScoresUnscaled(rates) ==
    [g \in DOMAIN rates |-> round(FloatMul(rates[g], Num(100, 1)), 1)]

\* (rates / rates.max() * 100).round(1).to_dict()
RiskScores(rates) ==
    LET max_fraud_rate == FloatMax({rates[g] : g \in DOMAIN rates})
    IN  [g \in DOMAIN rates |->
            round(FloatMul(FloatDiv(rates[g], max_fraud_rate), Num(100, 1)), 1)]

\* the fraud-rate series of generate_risk_scores, lines 211, 218 and 225
RiskRates(df_usd) ==
    [country_fraud_rates |-> GroupFraudRates(df_usd, LAMBDA r : r.country),
     hourly_fraud_rates |-> GroupFraudRates(df_usd, LAMBDA r : r.hour),
     vendor_fraud_rates |-> GroupFraudRates(df_usd, LAMBDA r : r.vendor_category)]

\* FraudAnalyzer.generate_risk_scores
GenerateRiskScores(df_usd) ==
    [country_risk_scores |-> RiskScores(GroupFraudRates(df_usd, LAMBDA r : r.country)),
     hourly_risk_scores |-> RiskScores(GroupFraudRates(df_usd, LAMBDA r : r.hour)),
     vendor_category_risk_scores |->
        RiskScores(GroupFraudRates(df_usd, LAMBDA r : r.vendor_category))]

\* ----------------------------------------------- BusinessInsightsAnalyzer
\* BusinessInsightsAnalyzer._prepare_data, lines 25-33
BusinessFeatures(row) ==
    row @@ [date |-> DateOf(row.timestamp),
            hour |-> HourOf(row.timestamp),
            day_of_week |-> DayOfWeek(row.timestamp),
            is_weekend |-> DayOfWeek(row.timestamp) \in {5, 6}]

\* mutant: the rate column is read for every foreign code, listed or not
business_convert_unlisted(row) ==
    IF row.currency = ReferenceCurrency THEN Return(row.amount)
    ELSE IF row.currency \notin DOMAIN row.rates THEN RaiseKeyError
         ELSE LET exchange_rate == row.rates[row.currency]
              IN  IF notna(exchange_rate) /\ exchange_rate # Zero
                  THEN Return(FloatDiv(row.amount, exchange_rate))
                  ELSE Return(None)

\* mutant: a zero rate is divided by
business_convert_dividing_by_zero(row) ==
    IF row.currency = ReferenceCurrency THEN Return(row.amount)
    ELSE IF row.currency \in SupportedCurrencies
         THEN IF row.currency \notin DOMAIN row.rates THEN RaiseKeyError
              ELSE LET exchange_rate == row.rates[row.currency]
                   IN  IF notna(exchange_rate)
                       THEN Return(FloatDiv(row.amount, exchange_rate))
                       ELSE Return(None)
         ELSE Return(None)

\* convert_to_usd(row) of BusinessInsightsAnalyzer._convert_to_usd
business_convert_to_usd(row) ==
    IF row.currency = ReferenceCurrency THEN Return(row.amount)
    ELSE IF row.currency \in SupportedCurrencies
         THEN IF row.currency \notin DOMAIN row.rates THEN RaiseKeyError
              ELSE LET exchange_rate == row.rates[row.currency]
                   IN  IF notna(exchange_rate) /\ exchange_rate # Zero
                       THEN Return(FloatDiv(row.amount, exchange_rate))
                       ELSE Return(None)
         ELSE Return(None)

\* BusinessInsightsAnalyzer._convert_to_usd, lines 40-55
BusinessConvert(df, xdf) ==
    LET applied == apply(business_convert_to_usd, merge(df, xdf))
    IN  IF applied.status = "ok"
        THEN [status |-> "ok", table |-> dropna(applied.table)]
        ELSE applied

\* legit_df[legit_df['is_weekend']], line 203
WeekendTransactions(legit_df) == Where(legit_df, LAMBDA r : r.is_weekend)

\* legit_df[~legit_df['is_weekend']], line 206
WeekdayTransactions(legit_df) == Where(legit_df, LAMBDA r : ~r.is_weekend)

\* pd.qcut(total_spent, q=5, ...) raises ValueError unless its six bin
\* edges, the quantiles 0, 0.2, .., 1, are all different
QcutEdgesUnique(total_spent) ==
    /\ DOMAIN total_spent # {}
    /\ \A a, b \in 0..5 :
          a # b => Quantile(total_spent, a, 5) # Quantile(total_spent, b, 5)

\* the keys of an integer-indexed series in ascending order: sort_index()
RECURSIVE SortedIndex(_)
SortedIndex(S) ==
    IF S = {} THEN <<>>
    ELSE LET least == CHOOSE a \in S : \A b \in S : a <= b
         IN  <<least>> \o SortedIndex(S \ {least})

\* legit_df.groupby('date')['amount_usd'].sum().sort_index(), line 71: the
\* values in the order of their dates
daily_volumes(legit_df) ==
    LET sums == GroupSums(legit_df, LAMBDA r : r.date)
        dates == SortedIndex(DOMAIN sums)
    IN  [k \in 1..Len(dates) |-> sums[dates[k]]]

\* legit_df.groupby('date').size().sort_index(), line 72
daily_transactions(legit_df) ==
    LET dates == SortedIndex(Groups(legit_df, LAMBDA r : r.date))
    IN  [k \in 1..Len(dates) |->
            Num(Len(Where(legit_df, LAMBDA r : r.date = dates[k])), 1)]

\* mutant: the last week is taken to be the whole series
GrowthRateOverAllDates(daily) ==
    LET first_week == Mean(head(daily, 7))
        last_week == Mean(daily)
    IN  FloatMul(FloatDiv(FloatSub(last_week, first_week), first_week), Num(100, 1))

\* ((last_week - first_week) / first_week) * 100 with the means of head(7)
\* and tail(7), lines 75-81
GrowthRate(daily) ==
    LET first_week == Mean(head(daily, 7))
        last_week == Mean(tail(daily, 7))
    IN  FloatMul(FloatDiv(FloatSub(last_week, first_week), first_week), Num(100, 1))

\* customer_stats['total_spent'], lines 96-101
total_spent(legit_df) == GroupSums(legit_df, LAMBDA r : r.customer_id)

\* customer_stats['total_spent'].quantile(0.9), line 111
vip_threshold(legit_df) == Quantile(total_spent(legit_df), 9, 10)

\* legit_df.groupby('country').agg(...), lines 128-134
country_legit_stats(legit_df) ==
    [g \in Groups(legit_df, LAMBDA r : r.country) |->
        LET rows == Where(legit_df, LAMBDA r : r.country = g)
        IN  [total_volume |-> SumAmountUsd(rows),
             avg_transaction |-> MeanAmountUsd(rows),
             transaction_count |-> Len(rows),
             unique_customers |-> NUnique(rows, LAMBDA r : r.customer_id)]]

\* legit_df.groupby('vendor_category').agg(...), lines 164-170
vendor_legit_stats(legit_df) ==
    [g \in Groups(legit_df, LAMBDA r : r.vendor_category) |->
        LET rows == Where(legit_df, LAMBDA r : r.vendor_category = g)
        IN  [total_revenue |-> SumAmountUsd(rows),
             avg_transaction |-> MeanAmountUsd(rows),
             transaction_count |-> Len(rows),
             unique_customers |-> NUnique(rows, LAMBDA r : r.customer_id)]]

\* BusinessInsightsAnalyzer.calculate_business_growth_metrics, the bundle it
\* returns up to customer_insights: business_growth (lines 64-93) and
\* customer_insights (96-125).  The division of line 86 raises on an empty
\* table, pd.qcut of line 106 when its edges coincide.
BusinessGrowthMetrics(df_usd) ==
    LET legit_df == Where(df_usd, LAMBDA r : r.is_fraud = FALSE)
        total_volume_usd == SumAmountUsd(df_usd)
        legit_volume_usd == SumAmountUsd(legit_df)
        spent == total_spent(legit_df)
        vip_customers ==
            {c \in DOMAIN spent : ~FloatLess(spent[c], vip_threshold(legit_df))}
    IN  IF df_usd = <<>> THEN [status |-> "ZeroDivisionError"]
        ELSE IF ~QcutEdgesUnique(spent) THEN [status |-> "ValueError"]
        ELSE [status |-> "ok",
              business_growth |->
                [total_business_volume_usd |-> round(total_volume_usd, 2),
                 legitimate_business_volume_usd |-> round(legit_volume_usd, 2),
                 business_health_percentage |->
                    round(FloatMul(FloatDiv(legit_volume_usd, total_volume_usd),
                                   Num(100, 1)), 2),
                 volume_growth_rate_percentage |->
                    round(GrowthRate(daily_volumes(legit_df)), 2),
                 transaction_growth_rate_percentage |->
                    round(GrowthRate(daily_transactions(legit_df)), 2)],
              customer_insights |->
                [total_active_customers |-> Cardinality(DOMAIN spent),
                 average_customer_lifetime_value_usd |->
                    round(FloatDiv(legit_volume_usd,
                                   Num(Cardinality(DOMAIN spent), 1)), 2),
                 vip_customers_count |-> Cardinality(vip_customers)]]

\* metrics['geographic_opportunities'], lines 149-153; order is
\* country_legit_stats after sort_values('total_volume', ascending=False)
GeographicOpportunities(legit_df, order) ==
    [total_countries_served |-> Len(order),
     top_revenue_countries |-> head(head(order, 10), 5)]

\* metrics['product_performance'], lines 180-182; order is vendor_legit_stats
\* after sort_values('total_revenue', ascending=False)
ProductPerformance(legit_df, order) ==
    [most_profitable_category |-> order[1],
     most_profitable_category_revenue_usd |->
        round(vendor_legit_stats(legit_df)[order[1]].total_revenue, 2)]

\* BusinessInsightsAnalyzer.calculate_market_opportunities, lines 249-323:
\* the counts of geographic_expansion and product_expansion
MarketOpportunities(df_usd) ==
    LET legit_df == Where(df_usd, LAMBDA r : r.is_fraud = FALSE)
        customers == Groups(legit_df, LAMBDA r : r.customer_id)
        customer_category_count ==
            [c \in customers |->
                NUnique(Where(legit_df, LAMBDA r : r.customer_id = c),
                        LAMBDA r : r.vendor_category)]
        country_performance == country_legit_stats(legit_df)
    IN  [status |-> "ok",
         geographic_expansion |->
            [underserved_markets_count |->
                Cardinality({g \in DOMAIN country_performance :
                                country_performance[g].unique_customers < 50})],
         product_expansion |->
            [single_category_customers_count |->
                Cardinality({c \in customers : customer_category_count[c] = 1}),
             max_category_utilization_potential |->
                NUnique(legit_df, LAMBDA r : r.vendor_category)]]

\* ------------------------------------------------------------------ state
VARIABLES
    txn_file,     \* the transaction file: a sequence of Txn
    rate_file,    \* the exchange-rate file: a sequence of RateRow
    object,       \* the class this run exercises; the three share no state
    loader,       \* the DataLoader: df, exchange_df, and how far they got
    loader_out,   \* what the last DataLoader.convert_to_usd call returned
    fraud,        \* the FraudAnalyzer: df, exchange_df, df_usd
    business,     \* the BusinessInsightsAnalyzer: df, exchange_df, df_usd
    metrics,      \* what the last metric-bundle or statistics call returned
    risk_scores,  \* what the last generate_risk_scores call returned
    locals,       \* local variables of the last such call, as it returned
    opportunities, \* what the last calculate_market_opportunities call returned
    run           \* the script run: where main() is, what it printed and wrote

vars ==
    <<txn_file, rate_file, object, loader, loader_out, fraud, business, metrics,
      risk_scores, locals, opportunities, run>>

Objects == {"DataLoader", "FraudAnalyzer", "BusinessInsightsAnalyzer"}

\* DataLoader.__init__: df and exchange_df are None
NewLoader == [df |-> <<>>, exchange_df |-> <<>>, stage |-> "None"]

\* no analyzer constructed yet
NoAnalyzer == [status |-> "none", df |-> <<>>, exchange_df |-> <<>>, df_usd |-> <<>>]

NoResult == [status |-> "none", table |-> <<>>]

\* no metric method has been called
NoLocals == [method |-> "none"]

\* the classes are used directly, not through a script
NoRun == [pc |-> "none"]

\* ----------------------------------------------------------------- inputs
\* The tables of least to n rows drawn from Row(1) .. Row(count), listed in
\* the order of their numbers: every normalizer works row by row, so a table
\* and its permutations yield the same rows.
OrderedTables(Row(_), count, least, n) ==
    LET picks == {s \in UNION {[1..k -> 1..count] : k \in least..n} :
                     \A i \in 1..(Len(s) - 1) : s[i] <= s[i + 1]}
    IN  {[j \in 1..Len(s) |-> Row(s[j])] : s \in picks}

\* Conversion inputs: USD and EUR transactions at two times of day 1 (a
\* Friday) and one of day 2, an unknown and a null currency code; rate rows
\* on day 1 (with a time of day) and on the adjacent day 2, with a null, a
\* zero and a usable EUR rate.
ConversionTimes == <<1 * HoursPerDay + 7, 1 * HoursPerDay + 22, 2 * HoursPerDay + 7>>

ConversionTxnRow(i) ==
    IF i <= 3 THEN TxnRow(ConversionTimes[i], "USD", Num(100, 1), FALSE)
    ELSE IF i <= 6 THEN TxnRow(ConversionTimes[i - 3], "EUR", Num(100, 1), FALSE)
    ELSE IF i = 7 THEN TxnRow(ConversionTimes[1], "XXX", Num(100, 1), FALSE)
    ELSE TxnRow(ConversionTimes[1], NullCode, Num(100, 1), FALSE)

ConversionRateDates == <<1 * HoursPerDay + 12, 2 * HoursPerDay>>

ConversionRates == <<NaN, Zero, Num(4, 1)>>

ConversionRateRow(i) ==
    RateRow(ConversionRateDates[((i - 1) % 2) + 1], ConversionRates[((i - 1) \div 2) + 1])

InitConversion ==
    /\ txn_file \in OrderedTables(ConversionTxnRow, 8, 1, MaxTxn)
    /\ rate_file \in OrderedTables(ConversionRateRow, 6, 0, MaxRates)

\* Calendar inputs: one transaction at every hour of eight consecutive days,
\* so every hour of the day and every day of the week occurs.
InitCalendar ==
    /\ txn_file \in {<<TxnRow(ts, cur, Num(100, 1), FALSE)>> :
                        ts \in 0..(8 * HoursPerDay - 1), cur \in {"USD", "EUR"}}
    /\ rate_file = <<RateRow(0, Num(2, 1))>>

\* every run starts with one of the three classes and nothing constructed
InitObjects ==
    /\ object \in Objects
    /\ loader = NewLoader
    /\ loader_out = NoResult
    /\ fraud = NoAnalyzer
    /\ business = NoAnalyzer
    /\ metrics = [status |-> "none"]
    /\ risk_scores = [status |-> "none"]
    /\ locals = NoLocals
    /\ opportunities = [status |-> "none"]
    /\ run = NoRun

\* Metric inputs: USD and EUR transactions of two customers, fraudulent or
\* not, on day 1; the rate file is empty or has a row for day 1, so that the
\* EUR transactions are dropped or kept (at 3 EUR per USD).  Customer c1 pays
\* 100, customer c2 pays 60 with the card present; the EUR vendors (category
\* v2) are the high-risk ones.  The legitimate USD and the fraudulent EUR
\* purchases are made at 7, with a trailing-hour record; the others at 23,
\* without one.
MetricsRowKinds == 8

MetricsTxnRow(i) ==
    LET b == [k \in 0..2 |-> ((i - 1) \div Pow2(k)) % 2]
        night == b[0] # b[1]
    IN  [device |-> IF b[1] = b[2] THEN "Chrome" ELSE "NFC Payment",
         channel |-> IF b[0] = b[2] THEN "web" ELSE "pos",
         is_card_present |-> b[2] = 1,
         is_high_risk_vendor |-> b[0] = 1]
        @@ Txn(1 * HoursPerDay + (IF night THEN 23 ELSE 7),
               IF b[0] = 0 THEN "USD" ELSE "EUR",
               IF b[2] = 0 THEN Num(100, 1) ELSE Num(60, 1),
               b[1] = 1,
               IF b[2] = 0 THEN "c1" ELSE "c2",
               IF b[2] = 0 THEN "A" ELSE "B",
               IF b[0] = 0 THEN "v1" ELSE "v2",
               IF night THEN NoActivity ELSE Activity(2))

InitMetrics ==
    /\ txn_file \in OrderedTables(MetricsTxnRow, MetricsRowKinds, 1, MaxMetricsTxn)
    /\ rate_file \in {<<>>, <<RateRow(1 * HoursPerDay, Num(3, 1))>>}

\* Scenario inputs: 100 USD legitimate, 50 EUR legitimate on day 1, whose
\* rate is 2, and 10 EUR fraudulent on day 2, which has no rate row; in every
\* order of the three rows, the USD purchase on any of three days, and with
\* or without a rate row for day 3.
ScenarioTransactions(usd_day) ==
    << Txn(usd_day * HoursPerDay + 9, "USD", Num(100, 1), FALSE, "c1", "A", "v1",
           Activity(2)),
       Txn(1 * HoursPerDay + 15, "EUR", Num(50, 1), FALSE, "c2", "B", "v2", Activity(2)),
       Txn(2 * HoursPerDay + 23, "EUR", Num(10, 1), TRUE, "c2", "B", "v2", Activity(2)) >>

ScenarioTables ==
    {[k \in 1..3 |-> ScenarioTransactions(d)[order[k]]] :
        d \in 1..3, order \in Orderings(1..3)}

ScenarioRates ==
    { <<RateRow(1 * HoursPerDay + 12, Num(2, 1))>>,
      <<RateRow(3 * HoursPerDay, Num(5, 1)), RateRow(1 * HoursPerDay, Num(2, 1))>> }

InitScenario ==
    /\ txn_file \in ScenarioTables
    /\ rate_file \in ScenarioRates

Init == (InitMetrics \/ InitScenario) /\ InitObjects

\* Growth inputs: USD transactions on the days 1 .. MaxDays, in the order of
\* their days or in the reverse order.  On a day of kind 0, customer c1 buys
\* once for 100; of kind 1, customer c2 buys twice for 60; of kind 2, the
\* only purchase is fraudulent, so that the day is not a date of the
\* legitimate table.
GrowthDay(day, kind) ==
    CASE kind = 0 ->
            << Txn(day * HoursPerDay + 9, "USD", Num(100, 1), FALSE, "c1", "A", "v1",
                   Activity(2)) >>
      [] kind = 1 ->
            << Txn(day * HoursPerDay + 9, "USD", Num(60, 1), FALSE, "c2", "B", "v2",
                   Activity(2)),
               Txn(day * HoursPerDay + 15, "USD", Num(60, 1), FALSE, "c2", "B", "v2",
                   Activity(2)) >>
      [] OTHER ->
            << Txn(day * HoursPerDay + 23, "USD", Num(100, 1), TRUE, "c1", "A", "v1",
                   Activity(2)) >>

\* the kinds of the days: free on the first two and the last two days, one
\* kind for the days between
GrowthKinds ==
    {[d \in 1..MaxDays |->
         IF d <= 2 THEN early[d]
         ELSE IF d > MaxDays - 2 THEN late[d - (MaxDays - 2)]
         ELSE between] :
        early \in [1..2 -> 0..2], late \in [1..2 -> 0..2], between \in 0..2}

GrowthTables ==
    {SeqConcat([k \in 1..MaxDays |->
                   GrowthDay(IF backwards THEN MaxDays + 1 - k ELSE k,
                             kinds[IF backwards THEN MaxDays + 1 - k ELSE k])]) :
        kinds \in GrowthKinds, backwards \in BOOLEAN}

InitGrowth ==
    /\ txn_file \in GrowthTables
    /\ rate_file = <<>>
    /\ object = "BusinessInsightsAnalyzer"
    /\ loader = NewLoader
    /\ loader_out = NoResult
    /\ fraud = NoAnalyzer
    /\ business = NoAnalyzer
    /\ metrics = [status |-> "none"]
    /\ risk_scores = [status |-> "none"]
    /\ locals = NoLocals
    /\ opportunities = [status |-> "none"]
    /\ run = NoRun

\* ---------------------------------------------------------------- actions
\* DataLoader.load_data
load_data ==
    /\ object = "DataLoader"
    /\ loader' = [df |-> ReadTransactions(txn_file), exchange_df |-> rate_file,
                  stage |-> "loaded"]
    /\ UNCHANGED <<txn_file, rate_file, object, loader_out, fraud, business, metrics,
                   risk_scores,
                   locals, opportunities, run>>

\* the loader after preprocess_data: it loads first when nothing is loaded;
\* on an already preprocessed loader every assignment rewrites a column with
\* the value it has
Preprocessed(l) ==
    IF l.stage = "preprocessed" THEN l
    ELSE LET df == IF l.stage = "None" THEN ReadTransactions(txn_file) ELSE l.df
             xdf == IF l.stage = "None" THEN rate_file ELSE l.exchange_df
         IN  [df |-> SeqMap(LoaderFeatures, df), exchange_df |-> RateDates(xdf),
              stage |-> "preprocessed"]

\* DataLoader.preprocess_data
preprocess_data ==
    /\ object = "DataLoader"
    /\ loader' = Preprocessed(loader)
    /\ UNCHANGED <<txn_file, rate_file, object, loader_out, fraud, business, metrics,
                   risk_scores,
                   locals, opportunities, run>>

\* DataLoader.convert_to_usd: preprocesses only when df or exchange_df is
\* None; a loaded, not preprocessed df has no 'date' column to merge on
convert_to_usd ==
    /\ object = "DataLoader"
    /\ LET l == IF loader.stage = "None" THEN Preprocessed(loader) ELSE loader
       IN  /\ loader' = l
           /\ loader_out' =
                IF l.stage = "preprocessed"
                THEN LoaderConvert(l.df, l.exchange_df)
                ELSE [status |-> "KeyError: date", table |-> <<>>]
    /\ UNCHANGED <<txn_file, rate_file, object, fraud, business, metrics,
                   risk_scores,
                   locals, opportunities, run>>

\* the tables a caller has at hand to pass as df: the first row of the
\* transaction file, and the normalized table convert_to_usd returned
ExplicitTables ==
    {head(ReadTransactions(txn_file), 1)}
        \cup (IF loader_out.status = "ok" THEN {loader_out.table} ELSE {})

\* the argument df of get_basic_stats: None by default, or a table
Arguments ==
    {[given |-> FALSE, table |-> <<>>]}
        \cup {[given |-> TRUE, table |-> t] : t \in ExplicitTables}

\* mutant: a loaded loader takes its own table, whatever the argument
get_basic_stats_of_own_table ==
    /\ object = "DataLoader"
    /\ \E df \in Arguments :
          /\ locals' = [method |-> "get_basic_stats", df |-> df]
          /\ metrics' = IF loader.stage # "None" THEN BasicStats(loader.df)
                        ELSE IF df.given THEN BasicStats(df.table)
                        ELSE [status |-> "ValueError"]
    /\ UNCHANGED <<txn_file, rate_file, object, loader, loader_out, fraud, business,
                   risk_scores, opportunities, run>>

\* DataLoader.get_basic_stats(df=None): df is the argument or, without one,
\* self.df; ValueError when that is None too.  metrics is what the call
\* returned, locals its argument.
get_basic_stats ==
    /\ object = "DataLoader"
    /\ \E df \in Arguments :
          /\ locals' = [method |-> "get_basic_stats", df |-> df]
          /\ metrics' = IF df.given THEN BasicStats(df.table)
                        ELSE IF loader.stage # "None" THEN BasicStats(loader.df)
                        ELSE [status |-> "ValueError"]
    /\ UNCHANGED <<txn_file, rate_file, object, loader, loader_out, fraud, business,
                   risk_scores, opportunities, run>>

\* FraudAnalyzer(transaction_data_path, exchange_data_path): __init__ with
\* _prepare_data and _convert_to_usd; an exception leaves no analyzer
FraudAnalyzerNew ==
    LET df == SeqMap(FraudFeatures, ReadTransactions(txn_file))
        xdf == RateDates(rate_file)
        usd == FraudConvert(df, xdf)
    IN  [status |-> usd.status, df |-> df, exchange_df |-> xdf, df_usd |-> usd.table]

\* a FraudAnalyzer is constructed
FraudAnalyzerInit ==
    /\ object = "FraudAnalyzer"
    /\ fraud.status = "none"
    /\ fraud' = FraudAnalyzerNew
    /\ UNCHANGED <<txn_file, rate_file, object, loader, loader_out, business, metrics,
                   risk_scores,
                   locals, opportunities, run>>

\* BusinessInsightsAnalyzer(transaction_data_path, exchange_data_path):
\* __init__ with _prepare_data and _convert_to_usd
BusinessInsightsAnalyzerNew ==
    LET df == SeqMap(BusinessFeatures, ReadTransactions(txn_file))
        xdf == RateDates(rate_file)
        usd == BusinessConvert(df, xdf)
    IN  [status |-> usd.status, df |-> df, exchange_df |-> xdf, df_usd |-> usd.table]

\* a BusinessInsightsAnalyzer is constructed
BusinessInsightsAnalyzerInit ==
    /\ object = "BusinessInsightsAnalyzer"
    /\ business.status = "none"
    /\ business' = BusinessInsightsAnalyzerNew
    /\ UNCHANGED <<txn_file, rate_file, object, loader, loader_out, fraud, metrics,
                   risk_scores,
                   locals, opportunities, run>>

\* the column of a table of group statistics, as floats
Column(stats, name) == [g \in DOMAIN stats |-> stats[g][name]]

Counts(stats, name) == [g \in DOMAIN stats |-> Num(stats[g][name], 1)]

\* every unique_merchants value is None: the column has dtype object, and
\* whether groupby(...).median() accepts it depends on the pandas release
MediansMayRaise(df_usd) ==
    \A k \in 1..Len(df_usd) :
        ActivityField(df_usd[k].last_hour_activity, "unique_merchants") = None

\* local variables of calculate_key_business_metrics when it returns: the
\* quantile of line 139 and the index of each sorted table
KeyBusinessLocals(df_usd, countries, vendors, devices, channels) ==
    [method |-> "calculate_key_business_metrics",
     quantile_95 |-> quantile_95(df_usd),
     country_fraud_stats |-> countries,
     vendor_analysis |-> vendors,
     device_fraud |-> devices,
     channel_fraud |-> channels]

\* FraudAnalyzer.calculate_key_business_metrics.  The divisions of lines 76
\* and 89 raise ZeroDivisionError on an empty table, before anything is
\* changed.  Otherwise line 136 adds the unique_merchants column to
\* self.df_usd, the median of line 137 may raise when that column holds
\* only None, and the four sort_values calls order their ties freely.
\* Sorting and the median are functions of their input: a later call on
\* the same analyzer, whose grouped tables are the same, orders the ties and
\* raises or not as the call before it did.
KeyBusinessMetricsCall ==
    LET df_usd == fraud.df_usd
        base == KeyBusinessMetrics(fraud.df, df_usd)
        called == locals.method = "calculate_key_business_metrics"
        sorted == called /\ metrics.status = "ok"
        country_orders ==
            IF sorted THEN {locals.country_fraud_stats}
            ELSE Rankings(Counts(country_fraud_stats(df_usd), "fraud_transactions"))
        vendor_orders ==
            IF sorted THEN {locals.vendor_analysis}
            ELSE Rankings(Column(vendor_analysis(df_usd), "fraud_rate"))
        device_orders ==
            IF sorted THEN {locals.device_fraud}
            ELSE Rankings(Column(device_fraud(df_usd), "mean"))
        channel_orders ==
            IF sorted THEN {locals.channel_fraud}
            ELSE Rankings(Column(channel_fraud(df_usd), "mean"))
        median_outcomes ==
            IF ~MediansMayRaise(df_usd) THEN {FALSE}
            ELSE IF called THEN {metrics.status = "DataError"}
            ELSE BOOLEAN
        with_column == WithUniqueMerchants(df_usd)
        behavioral == Behavioral(df_usd)
        potential_impact == PotentialImpact(df_usd)
    IN  IF base.status # "ok"
        THEN /\ metrics' = base
             /\ locals' = [method |-> "calculate_key_business_metrics"]
             /\ fraud' = fraud
        ELSE \E countries \in country_orders, vendors \in vendor_orders,
                devices \in device_orders, channels \in channel_orders,
                median_raises \in median_outcomes :
             /\ fraud' = [fraud EXCEPT !.df_usd = with_column]
             /\ IF median_raises
                THEN /\ metrics' = [status |-> "DataError"]
                     /\ locals' = [method |-> "calculate_key_business_metrics"]
                ELSE /\ metrics' =
                          base @@ [geographic_risk |-> GeographicRisk(df_usd, countries),
                                   behavioral |-> behavioral,
                                   vendor_risk |-> VendorRisk(df_usd, vendors),
                                   device_channel |->
                                      DeviceChannel(df_usd, devices, channels),
                                   potential_impact |-> potential_impact]
                     /\ locals' = KeyBusinessLocals(df_usd, countries, vendors,
                                                    devices, channels)

\* a call of calculate_key_business_metrics on a constructed analyzer
calculate_key_business_metrics ==
    /\ object = "FraudAnalyzer"
    /\ fraud.status = "ok"
    /\ KeyBusinessMetricsCall
    /\ UNCHANGED <<txn_file, rate_file, object, loader, loader_out, business, risk_scores,
                   opportunities, run>>

\* FraudAnalyzer.generate_risk_scores; rates are the three local fraud-rate
\* series the scores are computed from
generate_risk_scores ==
    /\ object = "FraudAnalyzer"
    /\ fraud.status = "ok"
    /\ risk_scores' = [status |-> "ok", scores |-> GenerateRiskScores(fraud.df_usd),
                        rates |-> RiskRates(fraud.df_usd)]
    /\ UNCHANGED <<txn_file, rate_file, object, loader, loader_out, fraud, business, metrics,
                   locals, opportunities, run>>

\* local variables of calculate_business_growth_metrics when it returns: the
\* growth rates of lines 77 and 81, the threshold of line 111 and the index
\* of each sorted table
BusinessGrowthLocals(legit_df, countries, vendors) ==
    [method |-> "calculate_business_growth_metrics",
     volume_growth_rate |-> GrowthRate(daily_volumes(legit_df)),
     transaction_growth_rate |-> GrowthRate(daily_transactions(legit_df)),
     vip_threshold |-> vip_threshold(legit_df),
     country_legit_stats |-> countries,
     vendor_legit_stats |-> vendors]

\* BusinessInsightsAnalyzer.calculate_business_growth_metrics; the two
\* sort_values calls order their ties freely
BusinessGrowthCall ==
    LET df_usd == business.df_usd
        legit_df == LegitRows(df_usd)
        base == BusinessGrowthMetrics(df_usd)
        country_orders ==
            Rankings(Column(country_legit_stats(legit_df), "total_volume"))
        vendor_orders ==
            Rankings(Column(vendor_legit_stats(legit_df), "total_revenue"))
    IN  IF base.status # "ok"
        THEN /\ metrics' = base
             /\ locals' = [method |-> "calculate_business_growth_metrics"]
        ELSE \E countries \in country_orders, vendors \in vendor_orders :
             /\ metrics' =
                  base @@ [geographic_opportunities |->
                              GeographicOpportunities(legit_df, countries),
                           product_performance |->
                              ProductPerformance(legit_df, vendors)]
             /\ locals' = BusinessGrowthLocals(legit_df, countries, vendors)

\* a call of calculate_business_growth_metrics on a constructed analyzer
calculate_business_growth_metrics ==
    /\ object = "BusinessInsightsAnalyzer"
    /\ business.status = "ok"
    /\ BusinessGrowthCall
    /\ UNCHANGED <<txn_file, rate_file, object, loader, loader_out, fraud, business,
                   risk_scores, opportunities, run>>

\* BusinessInsightsAnalyzer.calculate_market_opportunities.  Without a
\* legitimate row the last_seen column of line 273 is empty, and whether its
\* .dt accessor is accepted depends on the dtype the pandas release gives it.
MarketOpportunitiesCall ==
    \E raised \in IF LegitRows(business.df_usd) = <<>> THEN BOOLEAN ELSE {FALSE} :
        opportunities' = IF raised THEN [status |-> "AttributeError"]
                         ELSE MarketOpportunities(business.df_usd)

\* a call of calculate_market_opportunities on a constructed analyzer
calculate_market_opportunities ==
    /\ object = "BusinessInsightsAnalyzer"
    /\ business.status = "ok"
    /\ MarketOpportunitiesCall
    /\ UNCHANGED <<txn_file, rate_file, object, loader, loader_out, fraud, business,
                   metrics, risk_scores, locals, run>>

\* ------------------------------------------------------------------- json
\* Python values as json.dump sees them: each carries the type the encoder
\* dispatches on.  keys is the type of the keys of a dict, "str" or "int".
PyFloat(x) == [py |-> "float", value |-> x]

PyInt(i) == [py |-> "int", value |-> i]

PyStr(s) == [py |-> "str", value |-> s]

PyList(items) == [py |-> "list", items |-> items]

PyDict(keys, items) == [py |-> "dict", keys |-> keys, items |-> items]

\* a dict with string keys whose values are floats, but for the named
\* integer and string entries
PyRecord(rec, ints, strs) ==
    PyDict("str", [f \in DOMAIN rec |->
                      IF f \in ints THEN PyInt(rec[f])
                      ELSE IF f \in strs THEN PyStr(rec[f])
                      ELSE PyFloat(rec[f])])

\* the dict calculate_key_business_metrics returns
FraudMetricsObject(bundle) ==
    PyDict("str",
      [financial |-> PyRecord(bundle.financial, {}, {}),
       operational |->
          PyRecord(bundle.operational,
                   {"total_transactions", "fraud_transactions", "unique_customers"}, {}),
       geographic_risk |->
          PyDict("str",
            [top_risk_countries |->
                PyDict("str",
                  [g \in DOMAIN bundle.geographic_risk.top_risk_countries |->
                      PyRecord(bundle.geographic_risk.top_risk_countries[g],
                               {"total_transactions", "fraud_transactions"}, {})]),
             countries_with_fraud |-> PyInt(bundle.geographic_risk.countries_with_fraud),
             high_risk_countries_count |->
                PyInt(bundle.geographic_risk.high_risk_countries_count)]),
       temporal_patterns |-> PyRecord(bundle.temporal_patterns, {"peak_fraud_hour"}, {}),
       behavioral |-> PyRecord(bundle.behavioral, {"high_activity_customers_count"}, {}),
       vendor_risk |-> PyRecord(bundle.vendor_risk, {}, {"riskiest_vendor_category"}),
       device_channel |->
          PyRecord(bundle.device_channel, {}, {"riskiest_device", "riskiest_channel"}),
       potential_impact |-> PyRecord(bundle.potential_impact, {}, {})])

\* the dict generate_risk_scores returns: Series.to_dict() keeps the hours
\* as integer keys
RiskScoresObject(scores) ==
    PyDict("str",
      [country_risk_scores |->
          PyDict("str", [g \in DOMAIN scores.country_risk_scores |->
                            PyFloat(scores.country_risk_scores[g])]),
       hourly_risk_scores |->
          PyDict("int", [g \in DOMAIN scores.hourly_risk_scores |->
                            PyFloat(scores.hourly_risk_scores[g])]),
       vendor_category_risk_scores |->
          PyDict("str", [g \in DOMAIN scores.vendor_category_risk_scores |->
                            PyFloat(scores.vendor_category_risk_scores[g])])])

\* the dashboard of generate_executive_dashboard_metrics, lines 329-335: the
\* two bundles under business_health and market_opportunities
DashboardObject(bundle, found) ==
    PyDict("str",
      [business_health |->
          PyDict("str",
            [business_growth |-> PyRecord(bundle.business_growth, {}, {}),
             customer_insights |->
                PyRecord(bundle.customer_insights,
                         {"total_active_customers", "vip_customers_count"}, {}),
             geographic_opportunities |->
                PyDict("str",
                  [total_countries_served |->
                      PyInt(bundle.geographic_opportunities.total_countries_served),
                   top_revenue_countries |->
                      PyList([k \in DOMAIN bundle.geographic_opportunities
                                              .top_revenue_countries |->
                                 PyStr(bundle.geographic_opportunities
                                             .top_revenue_countries[k])])]),
             product_performance |->
                PyRecord(bundle.product_performance, {}, {"most_profitable_category"})]),
       market_opportunities |->
          PyDict("str",
            [geographic_expansion |->
                PyRecord(found.geographic_expansion, {"underserved_markets_count"}, {}),
             product_expansion |->
                PyRecord(found.product_expansion,
                         {"single_category_customers_count",
                          "max_category_utilization_potential"}, {})])])

\* float.__repr__ of a finite float: the shortest decimal that reads back as
\* the float, with at least one decimal place.  Every float of the bundles
\* is the result of a round() to at most three places.
float_repr(x) ==
    LET places == CHOOSE k \in 1..9 :
                     /\ Pow10(k) % x.d = 0
                     /\ \A j \in 1..(k - 1) : Pow10(j) % x.d # 0
    IN  [json |-> "number", digits |-> x.n * (Pow10(places) \div x.d), places |-> places]

\* mutant: nan is written as the JSON literal null
floatstr_null(x) ==
    IF x = NaN THEN [json |-> "null"]
    ELSE IF x = Num(1, 0) THEN [json |-> "Infinity"]
    ELSE IF x = Num(-1, 0) THEN [json |-> "-Infinity"]
    ELSE float_repr(x)

\* floatstr of json.encoder, with allow_nan = True: nan, inf and -inf are
\* written as the bare words NaN, Infinity and -Infinity
floatstr(x) ==
    IF x = NaN THEN [json |-> "NaN"]
    ELSE IF x = Num(1, 0) THEN [json |-> "Infinity"]
    ELSE IF x = Num(-1, 0) THEN [json |-> "-Infinity"]
    ELSE float_repr(x)

\* the key of a JSON object member: an int key is written as its digits
KeyText(keys, k) == IF keys = "int" THEN ToString(k) ELSE k

\* json.dump(obj, f, indent=2, ensure_ascii=False): the text, as the tree of
\* its literals
RECURSIVE json_dump(_)
json_dump(obj) ==
    CASE obj.py = "float" -> floatstr(obj.value)
      [] obj.py = "int" -> [json |-> "number", digits |-> obj.value, places |-> 0]
      [] obj.py = "str" -> [json |-> "string", chars |-> obj.value]
      [] obj.py = "list" ->
            [json |-> "array",
             elements |-> [k \in DOMAIN obj.items |-> json_dump(obj.items[k])]]
      [] obj.py = "dict" ->
            [json |-> "object",
             members |->
                [name \in {KeyText(obj.keys, k) : k \in DOMAIN obj.items} |->
                    json_dump(obj.items[CHOOSE k \in DOMAIN obj.items :
                                           KeyText(obj.keys, k) = name])]]

\* json.load(f): a number without decimal places is an int, with them a
\* float; NaN, Infinity and -Infinity are accepted; null is None; every
\* object becomes a dict with string keys
RECURSIVE json_load(_)
json_load(text) ==
    CASE text.json = "number" ->
            IF text.places = 0 THEN PyInt(text.digits)
            ELSE PyFloat(Num(text.digits, Pow10(text.places)))
      [] text.json = "NaN" -> PyFloat(NaN)
      [] text.json = "Infinity" -> PyFloat(Num(1, 0))
      [] text.json = "-Infinity" -> PyFloat(Num(-1, 0))
      [] text.json = "null" -> [py |-> "NoneType"]
      [] text.json = "string" -> PyStr(text.chars)
      [] text.json = "array" ->
            PyList([k \in DOMAIN text.elements |-> json_load(text.elements[k])])
      [] text.json = "object" ->
            PyDict("str", [name \in DOMAIN text.members |-> json_load(text.members[name])])

\* ------------------------------------------- run_analysis.py and
\* ------------------------------------------- run_comprehensive_analysis.py
Scripts == {"run_analysis", "run_comprehensive_analysis"}

\* print(f"... Файл {path} не найден!")
NotFound(path) == "not found: " \o path

\* a JSON file that has not been written
NoFile == [json |-> "no file"]

\* main() has printed its banner and is about to test the first path
StartOfMain(transaction_exists, exchange_exists) ==
    [pc |-> "check_transaction_path",
     transaction_exists |-> transaction_exists,
     exchange_exists |-> exchange_exists,
     console |-> <<"banner">>,
     directories |-> {},
     written |-> {},
     files |-> [business_metrics |-> NoFile, risk_scores |-> NoFile,
                business_insights |-> NoFile]]

\* Run inputs: each file exists or not; a file that exists holds metric rows
\* (the transactions) or no row or the rate of day 1 (the rates), a missing
\* file holds nothing.
InitRun ==
    /\ object \in Scripts
    /\ \E transaction_exists, exchange_exists \in BOOLEAN :
          /\ run = StartOfMain(transaction_exists, exchange_exists)
          /\ txn_file \in IF transaction_exists
                          THEN OrderedTables(MetricsTxnRow, MetricsRowKinds, 1, MaxRunTxn)
                          ELSE {<<>>}
          /\ rate_file \in IF exchange_exists
                           THEN {<<>>, <<RateRow(1 * HoursPerDay, Num(3, 1))>>}
                           ELSE {<<>>}
    /\ loader = NewLoader
    /\ loader_out = NoResult
    /\ fraud = NoAnalyzer
    /\ business = NoAnalyzer
    /\ metrics = [status |-> "none"]
    /\ risk_scores = [status |-> "none"]
    /\ locals = NoLocals
    /\ opportunities = [status |-> "none"]

\* pd.read_parquet of a path that does not exist raises
FilesReadable == run.transaction_exists /\ run.exchange_exists

\* if not os.path.exists(transaction_path): print(...); return
check_transaction_path ==
    /\ object \in Scripts
    /\ run.pc = "check_transaction_path"
    /\ run' = IF run.transaction_exists
              THEN [run EXCEPT !.pc = "check_exchange_path"]
              ELSE [run EXCEPT !.pc = "returned",
                               !.console = Append(@, NotFound("transaction_path"))]
    /\ UNCHANGED <<txn_file, rate_file, object, loader, loader_out, fraud, business,
                   metrics, risk_scores, locals, opportunities>>

\* mutant: the missing exchange file is reported and main() goes on
check_exchange_path_going_on ==
    /\ object \in Scripts
    /\ run.pc = "check_exchange_path"
    /\ run' = IF run.exchange_exists
              THEN [run EXCEPT !.pc = "FraudAnalyzer"]
              ELSE [run EXCEPT !.pc = "FraudAnalyzer",
                               !.console = Append(@, NotFound("exchange_path"))]
    /\ UNCHANGED <<txn_file, rate_file, object, loader, loader_out, fraud, business,
                   metrics, risk_scores, locals, opportunities>>

\* if not os.path.exists(exchange_path): print(...); return
check_exchange_path ==
    /\ object \in Scripts
    /\ run.pc = "check_exchange_path"
    /\ run' = IF run.exchange_exists
              THEN [run EXCEPT !.pc = "FraudAnalyzer"]
              ELSE [run EXCEPT !.pc = "returned",
                               !.console = Append(@, NotFound("exchange_path"))]
    /\ UNCHANGED <<txn_file, rate_file, object, loader, loader_out, fraud, business,
                   metrics, risk_scores, locals, opportunities>>

\* analyzer = FraudAnalyzer(transaction_path, exchange_path), inside try
main_FraudAnalyzer ==
    /\ object \in Scripts
    /\ run.pc = "FraudAnalyzer"
    /\ fraud' = IF FilesReadable THEN FraudAnalyzerNew
                ELSE [NoAnalyzer EXCEPT !.status = "FileNotFoundError"]
    /\ run' = [run EXCEPT !.pc = IF fraud'.status = "ok" THEN "save_results"
                                 ELSE "except"]
    /\ UNCHANGED <<txn_file, rate_file, object, loader, loader_out, business, metrics,
                   risk_scores, locals, opportunities>>

\* analyzer.save_results('results'): the directory is made, the two bundles
\* are computed, and then the three files are written
save_results ==
    /\ object \in Scripts
    /\ run.pc = "save_results"
    /\ KeyBusinessMetricsCall
    /\ IF metrics'.status = "ok"
       THEN /\ risk_scores' = [status |-> "ok",
                               scores |-> GenerateRiskScores(fraud'.df_usd),
                               rates |-> RiskRates(fraud'.df_usd)]
            /\ run' = [run EXCEPT
                          !.directories = @ \cup {"results"},
                          !.written = @ \cup {"results/business_metrics.json",
                                              "results/risk_scores.json",
                                              "results/executive_summary.md"},
                          !.files.business_metrics =
                             json_dump(FraudMetricsObject(metrics')),
                          !.files.risk_scores =
                             json_dump(RiskScoresObject(risk_scores'.scores)),
                          !.pc = IF object = "run_analysis" THEN "report"
                                 ELSE "BusinessInsightsAnalyzer"]
       ELSE /\ risk_scores' = risk_scores
            /\ run' = [run EXCEPT !.directories = @ \cup {"results"}, !.pc = "except"]
    /\ UNCHANGED <<txn_file, rate_file, object, loader, loader_out, business,
                   opportunities>>

\* business_analyzer = BusinessInsightsAnalyzer(transaction_path, exchange_path)
main_BusinessInsightsAnalyzer ==
    /\ object = "run_comprehensive_analysis"
    /\ run.pc = "BusinessInsightsAnalyzer"
    /\ business' = IF FilesReadable THEN BusinessInsightsAnalyzerNew
                   ELSE [NoAnalyzer EXCEPT !.status = "FileNotFoundError"]
    /\ run' = [run EXCEPT !.pc = IF business'.status = "ok" THEN "save_business_insights"
                                 ELSE "except"]
    /\ UNCHANGED <<txn_file, rate_file, object, loader, loader_out, fraud, metrics,
                   risk_scores, locals, opportunities>>

\* business_analyzer.save_business_insights('results'): the directory is
\* made, generate_executive_dashboard_metrics computes the two bundles, and
\* then the two files are written
save_business_insights ==
    /\ object = "run_comprehensive_analysis"
    /\ run.pc = "save_business_insights"
    /\ BusinessGrowthCall
    /\ IF metrics'.status = "ok"
       THEN /\ MarketOpportunitiesCall
            /\ run' = IF opportunities'.status = "ok"
                      THEN [run EXCEPT
                               !.written = @ \cup {"results/business_insights.json",
                                                   "results/business_executive_summary.md"},
                               !.files.business_insights =
                                  json_dump(DashboardObject(metrics', opportunities')),
                               !.pc = "report"]
                      ELSE [run EXCEPT !.pc = "except"]
       ELSE /\ opportunities' = opportunities
            /\ run' = [run EXCEPT !.pc = "except"]
    /\ UNCHANGED <<txn_file, rate_file, object, loader, loader_out, fraud, business,
                   risk_scores>>

\* the prints of the results, to the end of the try block
main_report ==
    /\ object \in Scripts
    /\ run.pc = "report"
    /\ run' = [run EXCEPT !.pc = "returned", !.console = Append(@, "results")]
    /\ UNCHANGED <<txn_file, rate_file, object, loader, loader_out, fraud, business,
                   metrics, risk_scores, locals, opportunities>>

\* mutant: the handler prints the error and main() goes on to its printout
main_except_resuming ==
    /\ object \in Scripts
    /\ run.pc = "except"
    /\ run' = [run EXCEPT !.pc = "report", !.console = Append(@, "error")]
    /\ UNCHANGED <<txn_file, rate_file, object, loader, loader_out, fraud, business,
                   metrics, risk_scores, locals, opportunities>>

\* except Exception as e: print(f"... {e}"); traceback.print_exc(); the
\* handler is the last statement of main(), which then returns normally
main_except ==
    /\ object \in Scripts
    /\ run.pc = "except"
    /\ run' = [run EXCEPT !.pc = "returned",
                          !.console = @ \o <<"error", "traceback">>]
    /\ UNCHANGED <<txn_file, rate_file, object, loader, loader_out, fraud, business,
                   metrics, risk_scores, locals, opportunities>>

\* main() of either script
NextRun ==
    \/ check_transaction_path
    \/ check_exchange_path
    \/ main_FraudAnalyzer
    \/ save_results
    \/ main_BusinessInsightsAnalyzer
    \/ save_business_insights
    \/ main_report
    \/ main_except

SpecRun == InitRun /\ [][NextRun]_vars

\* the loading and normalizing steps of the three classes
NextNormalize ==
    \/ load_data
    \/ preprocess_data
    \/ convert_to_usd
    \/ FraudAnalyzerInit
    \/ BusinessInsightsAnalyzerInit

\* the normalizers over the conversion inputs
InitConversionRun == InitConversion /\ InitObjects

SpecConversion == InitConversionRun /\ [][NextNormalize]_vars

\* the derived calendar columns over the calendar inputs
InitCalendarRun == InitCalendar /\ InitObjects

SpecCalendar == InitCalendarRun /\ [][NextNormalize]_vars

\* Quantile inputs: one legitimate USD purchase by each of 1 .. MaxCustomers
\* customers, listed forwards or backwards.  Customer i spends and visits
\* i, i * i or 7 * i - 3 (merchants), so that the values are evenly spaced
\* or not.
QuantileValue(shape, i) ==
    CASE shape = 1 -> i
      [] shape = 2 -> i * i
      [] OTHER -> 7 * i - 3

QuantileTables ==
    {[k \in 1..n |->
         LET i == IF backwards THEN n + 1 - k ELSE k
         IN  Txn(1 * HoursPerDay + 9, "USD", Num(QuantileValue(shape, i), 1), FALSE,
                 "c" \o ToString(i), "A", "v1", Activity(QuantileValue(shape, i)))] :
        n \in 1..MaxCustomers, shape \in 1..3, backwards \in BOOLEAN}

InitQuantile ==
    /\ txn_file \in QuantileTables
    /\ rate_file = <<>>
    /\ object \in {"FraudAnalyzer", "BusinessInsightsAnalyzer"}
    /\ loader = NewLoader
    /\ loader_out = NoResult
    /\ fraud = NoAnalyzer
    /\ business = NoAnalyzer
    /\ metrics = [status |-> "none"]
    /\ risk_scores = [status |-> "none"]
    /\ locals = NoLocals
    /\ opportunities = [status |-> "none"]
    /\ run = NoRun

\* the two analyzers over the quantile inputs
NextQuantile ==
    \/ FraudAnalyzerInit
    \/ BusinessInsightsAnalyzerInit
    \/ calculate_key_business_metrics
    \/ calculate_business_growth_metrics

SpecQuantile == InitQuantile /\ [][NextQuantile]_vars

\* the business analyzer over the growth inputs
NextGrowth ==
    \/ BusinessInsightsAnalyzerInit
    \/ calculate_business_growth_metrics

SpecGrowth == InitGrowth /\ [][NextGrowth]_vars

Next ==
    \/ NextNormalize
    \/ get_basic_stats
    \/ calculate_key_business_metrics
    \/ generate_risk_scores
    \/ calculate_business_growth_metrics
    \/ calculate_market_opportunities

Spec == Init /\ [][Next]_vars

\* ================================================================ claims
\* the normalizer call of this run: its status and the table it produced
Out ==
    CASE object = "DataLoader" -> loader_out
      [] object = "FraudAnalyzer" -> [status |-> fraud.status, table |-> fraud.df_usd]
      [] object = "BusinessInsightsAnalyzer" ->
            [status |-> business.status, table |-> business.df_usd]

Txns == 1..Len(txn_file)

RateRows == 1..Len(rate_file)

\* the output rows of transaction i
RowsOf(i) == {k \in 1..Len(Out.table) : Out.table[k].txn = i}

Kept(i) == RowsOf(i) # {}

\* rate row j is of the calendar date of transaction i
SameDate(i, j) ==
    rate_file[j].date \div HoursPerDay = txn_file[i].timestamp \div HoursPerDay

TenCodes == {"AUD", "BRL", "CAD", "EUR", "GBP", "JPY", "MXN", "NGN", "RUB", "SGD"}

Foreign(i) == txn_file[i].currency \in TenCodes

\* the rate cell of transaction i's currency in rate row j is usable
Usable(i, j) ==
    LET cell == rate_file[j].rates[txn_file[i].currency]
    IN  cell # NaN /\ cell # Zero

HasRate(i) == \E j \in RateRows : SameDate(i, j) /\ Usable(i, j)

\* C1: a transaction is in the normalized output iff its currency is USD, or
\* it is one of the ten codes and a rate cell of its currency on its calendar
\* date exists and is neither null nor zero.
C1_IncludedIffConvertible ==
    Out.status = "ok" =>
        \A i \in Txns :
            Kept(i) <=> (txn_file[i].currency = "USD" \/ (Foreign(i) /\ HasRate(i)))

\* a foreign transaction kept beside a foreign transaction dropped
C1_Witness ==
    /\ Out.status = "ok"
    /\ \E i, k \in Txns :
          /\ Foreign(i) /\ Kept(i)
          /\ Foreign(k) /\ ~Kept(k)

\* C2: every USD transaction is in the output with amount_usd equal to its
\* amount, whether or not a rate row exists for its date.
C2_UsdAmountUnchanged ==
    Out.status = "ok" =>
        \A i \in Txns :
            txn_file[i].currency = "USD" =>
                /\ Kept(i)
                /\ \A k \in RowsOf(i) : Out.table[k].amount_usd = txn_file[i].amount

\* a USD transaction kept on a date without a rate row
C2_Witness ==
    /\ Out.status = "ok"
    /\ \E i \in Txns :
          /\ txn_file[i].currency = "USD"
          /\ \A j \in RateRows : ~SameDate(i, j)
          /\ \E k \in RowsOf(i) : Out.table[k].amount_usd = Num(100, 1)

\* C3: for a transaction of a supported foreign currency and a usable rate r
\* of its date, the output has a row with amount_usd = amount / r, that is
\* amount_usd * r = amount.
C3_ForeignAmountDivided ==
    Out.status = "ok" =>
        \A i \in Txns : \A j \in RateRows :
            (Foreign(i) /\ SameDate(i, j) /\ Usable(i, j)) =>
                \E k \in RowsOf(i) :
                    /\ Out.table[k].rate_row = j
                    /\ FloatMul(Out.table[k].amount_usd,
                                rate_file[j].rates[txn_file[i].currency]) = txn_file[i].amount

\* 100 EUR at rate 4 became 25
C3_Witness ==
    /\ Out.status = "ok"
    /\ \E k \in 1..Len(Out.table) :
          /\ Out.table[k].currency = "EUR"
          /\ Out.table[k].rates["EUR"] = Num(4, 1)
          /\ Out.table[k].amount_usd = Num(25, 1)

\* the rate dates are unique after truncation to a calendar date
UniqueRateDates ==
    \A j, l \in RateRows :
        rate_file[j].date \div HoursPerDay = rate_file[l].date \div HoursPerDay => j = l

\* no output row of a foreign currency has a null or zero matched rate
NoUnusableRateInOutput ==
    \A k \in 1..Len(Out.table) :
        Out.table[k].currency # "USD" =>
            LET cell == Out.table[k].rates[Out.table[k].currency]
            IN  cell # NaN /\ cell # Zero

Dropped == {i \in Txns : ~Kept(i)}

RowCounts ==
    /\ Len(Out.table) <= Len(txn_file)
    /\ Len(txn_file) - Len(Out.table) = Cardinality(Dropped)

\* C4 as claimed: for every rate table, unique dates or not, no output row
\* has a null or zero matched rate, the output has at most as many rows as
\* the input, and the difference is the number of dropped transactions.
C4_Original == Out.status = "ok" => (NoUnusableRateInOutput /\ RowCounts)

\* C4 as amended: no output row has a null or zero matched rate; when the
\* rate dates are unique after truncation, the output has at most as many
\* rows as the input and the difference is the number of dropped
\* transactions.
C4_RowCountsUniqueDates ==
    Out.status = "ok" => (NoUnusableRateInOutput /\ (UniqueRateDates => RowCounts))

\* unique rate dates, one transaction dropped for a zero rate, one kept
C4_Witness ==
    /\ Out.status = "ok"
    /\ UniqueRateDates
    /\ Len(txn_file) = 2
    /\ Len(Out.table) = 1
    /\ \E i \in Dropped : \E j \in RateRows :
          SameDate(i, j) /\ rate_file[j].rates["EUR"] = Zero /\ Foreign(i)

\* transaction i has no rate row of its date, or only null or zero cells
Unmatched(i) == \A j \in RateRows : ~SameDate(i, j)

\* merged_df with its amount_usd column, before dropna: recomputed from the
\* files with the steps of the object of this run
MergedWithAmounts ==
    LET df == ReadTransactions(txn_file)
        xdf == RateDates(rate_file)
    IN  CASE object = "DataLoader" ->
                apply(convert_amount, merge(SeqMap(LoaderFeatures, df), xdf)).table
          [] object = "FraudAnalyzer" ->
                apply(fraud_convert_to_usd, merge(SeqMap(FraudFeatures, df), xdf)).table
          [] object = "BusinessInsightsAnalyzer" ->
                apply(business_convert_to_usd, merge(SeqMap(BusinessFeatures, df), xdf)).table

\* every merged row of transaction i has a null amount_usd, and none is output
NullAndAbsent(i) ==
    /\ \A k \in 1..Len(MergedWithAmounts) :
          MergedWithAmounts[k].txn = i => MergedWithAmounts[k].amount_usd = NaN
    /\ ~Kept(i)

\* C5 as claimed: every transaction whose date has no rate row, or whose
\* rate cell on that date is null or zero, gets a null amount_usd and is
\* absent from the output.
C5_Original ==
    Out.status = "ok" =>
        \A i \in Txns :
            (Unmatched(i) \/ (Foreign(i) /\ \E j \in RateRows : SameDate(i, j) /\ ~Usable(i, j)))
                => NullAndAbsent(i)

\* C5 as amended: every transaction of a currency other than USD whose date
\* has no rate row, or whose rate cell is null or zero in every rate row of
\* that date, gets a null amount_usd and is absent from the output.
C5_ForeignWithoutRateDropped ==
    Out.status = "ok" =>
        \A i \in Txns :
            (txn_file[i].currency # "USD" /\ (Unmatched(i) \/ (Foreign(i) /\ ~HasRate(i))))
                => NullAndAbsent(i)

\* a foreign transaction without a rate row and one with a null cell, both
\* dropped
C5_Witness ==
    /\ Out.status = "ok"
    /\ \E i \in Txns : Foreign(i) /\ Unmatched(i) /\ ~Kept(i)
    /\ \E i \in Txns : \E j \in RateRows :
          Foreign(i) /\ SameDate(i, j) /\ rate_file[j].rates["EUR"] = NaN /\ ~Kept(i)

\* C6: the rate of an output row is that of a rate row of the transaction's
\* calendar date; transactions of one currency on one day use the same rate
\* rows; the rate row of an adjacent day is never used.
C6_RateOfSameDate ==
    Out.status = "ok" =>
        /\ \A k \in 1..Len(Out.table) :
              LET r == Out.table[k]
              IN  r.currency # "USD" =>
                      /\ r.rate_row \in RateRows
                      /\ SameDate(r.txn, r.rate_row)
                      /\ r.rates = rate_file[r.rate_row].rates
        /\ \A i, l \in Txns :
              (/\ txn_file[i].currency = txn_file[l].currency
               /\ txn_file[i].timestamp \div HoursPerDay = txn_file[l].timestamp \div HoursPerDay)
                  => {Out.table[k].rate_row : k \in RowsOf(i)}
                        = {Out.table[k].rate_row : k \in RowsOf(l)}

\* two transactions at different times of one day converted with the same
\* rate row, while the usable rate row of the next day is used by no row
C6_Witness ==
    /\ Out.status = "ok"
    /\ \E i, l \in Txns : \E j, n \in RateRows :
          /\ txn_file[i].timestamp # txn_file[l].timestamp
          /\ Foreign(i) /\ Foreign(l)
          /\ \E k \in RowsOf(i) : Out.table[k].rate_row = j
          /\ \E k \in RowsOf(l) : Out.table[k].rate_row = j
          /\ rate_file[n].date \div HoursPerDay = (txn_file[i].timestamp \div HoursPerDay) + 1
          /\ Usable(i, n)
          /\ \A k \in 1..Len(Out.table) : Out.table[k].rate_row # n

\* C7: a transaction whose currency code is outside the supported set, a
\* null code included, raises nothing and is dropped, and the other rows are
\* normalized.
C7_UnsupportedDropped ==
    /\ Out.status # "KeyError: currency"
    /\ Out.status = "ok" =>
          \A i \in Txns :
              /\ (txn_file[i].currency \notin (TenCodes \cup {"USD"})) => ~Kept(i)
              /\ txn_file[i].currency = "USD" => Kept(i)

\* an unknown code dropped beside a kept row
C7_Witness ==
    /\ Out.status = "ok"
    /\ \E i, k \in Txns :
          /\ txn_file[i].currency \in {"XXX", NullCode} /\ ~Kept(i)
          /\ Kept(k)

\* the transactions the normalization keeps, by the rule of the files alone
Convertible == {i \in Txns : txn_file[i].currency = "USD" \/ (Foreign(i) /\ HasRate(i))}

\* the USD amount of a kept transaction: 1 USD = 1, at the rate of its date
UsdOf(i) ==
    IF txn_file[i].currency = "USD" THEN txn_file[i].amount
    ELSE LET j == CHOOSE l \in RateRows : SameDate(i, l) /\ Usable(i, l)
         IN  FloatDiv(txn_file[i].amount, rate_file[j].rates[txn_file[i].currency])

RECURSIVE UsdTotal(_)
UsdTotal(S) ==
    IF S = {} THEN Zero
    ELSE LET i == CHOOSE x \in S : TRUE
         IN  FloatAdd(UsdOf(i), UsdTotal(S \ {i}))

FraudTxns == {i \in Txns : txn_file[i].is_fraud}

\* C8: the counts and sums of the fraud bundle, the key sets of the risk
\* scores and the volumes and customer count of the business bundle are
\* those of the kept transactions: a dropped transaction adds to none.
C8_MetricsOverNormalizedOnly ==
    /\ (object = "FraudAnalyzer" /\ metrics.status = "ok") =>
          /\ metrics.operational.total_transactions = Cardinality(Convertible)
          /\ metrics.operational.fraud_transactions =
                Cardinality(Convertible \cap FraudTxns)
          /\ metrics.operational.unique_customers =
                Cardinality({txn_file[i].customer_id : i \in Convertible})
          /\ metrics.financial.total_transaction_volume_usd =
                round(UsdTotal(Convertible), 2)
          /\ metrics.financial.total_fraud_loss_usd =
                round(UsdTotal(Convertible \cap FraudTxns), 2)
    /\ (object = "FraudAnalyzer" /\ risk_scores.status = "ok") =>
          /\ DOMAIN risk_scores.scores.country_risk_scores =
                {txn_file[i].country : i \in Convertible}
          /\ DOMAIN risk_scores.scores.vendor_category_risk_scores =
                {txn_file[i].vendor_category : i \in Convertible}
          /\ DOMAIN risk_scores.scores.hourly_risk_scores =
                {txn_file[i].timestamp % HoursPerDay : i \in Convertible}
    /\ (object = "BusinessInsightsAnalyzer" /\ metrics.status = "ok") =>
          /\ metrics.business_growth.total_business_volume_usd =
                round(UsdTotal(Convertible), 2)
          /\ metrics.business_growth.legitimate_business_volume_usd =
                round(UsdTotal(Convertible \ FraudTxns), 2)
          /\ metrics.customer_insights.total_active_customers =
                Cardinality({txn_file[i].customer_id : i \in Convertible \ FraudTxns})

\* a fraudulent transaction was dropped and the fraud bundle counts no fraud
C8_Witness ==
    /\ object = "FraudAnalyzer"
    /\ metrics.status = "ok"
    /\ \E i \in FraudTxns : i \notin Convertible
    /\ metrics.operational.fraud_transactions = 0
    /\ metrics.operational.total_transactions = 2
    /\ Len(txn_file) = 3

\* the tables that carry the derived calendar columns
WeekendRows ==
    CASE object = "DataLoader" ->
            IF loader.stage = "preprocessed" THEN loader.df ELSE <<>>
      [] object = "BusinessInsightsAnalyzer" -> business.df
      [] OTHER -> <<>>

NightRows ==
    CASE object = "DataLoader" ->
            IF loader.stage = "preprocessed" THEN loader.df ELSE <<>>
      [] object = "FraudAnalyzer" -> fraud.df
      [] OTHER -> <<>>

\* C9: is_weekend holds exactly on Saturdays and Sundays, which are the days
\* 2 and 3 (mod 7) after Thursday 1970-01-01, and exactly when day_of_week
\* is 5 or 6.
C9_WeekendIffSaturdaySunday ==
    \A k \in 1..Len(WeekendRows) :
        LET r == WeekendRows[k]
        IN  /\ r.is_weekend <=> ((r.timestamp \div HoursPerDay) % 7 \in {2, 3})
            /\ r.is_weekend <=> (r.day_of_week \in {5, 6})

\* a Sunday row flagged
C9_Witness ==
    \E k \in 1..Len(WeekendRows) :
        /\ WeekendRows[k].timestamp \div HoursPerDay = 3
        /\ WeekendRows[k].is_weekend

\* C10: is_night holds exactly at hours 22, 23 and 0 to 6, on every
\* transaction of the file, convertible or not.
C10_NightIffHour22To6 ==
    Len(NightRows) > 0 =>
        /\ Len(NightRows) = Len(txn_file)
        /\ \A k \in 1..Len(NightRows) :
              LET r == NightRows[k]
              IN  /\ r.timestamp = txn_file[k].timestamp
                  /\ r.is_night <=> (r.timestamp % HoursPerDay \in {22, 23, 0, 1, 2, 3, 4, 5, 6})

\* a transaction at hour 6 that is not converted carries the night flag
C10_Witness ==
    /\ object = "FraudAnalyzer"
    /\ fraud.status = "ok"
    /\ fraud.df_usd = <<>>
    /\ \E k \in 1..Len(fraud.df) :
          fraud.df[k].timestamp % HoursPerDay = 6 /\ fraud.df[k].is_night

\* the files of this run are those of the three-transaction scenario
IsScenario ==
    /\ Len(txn_file) = 3
    /\ \E i \in 1..3 : txn_file[i].amount = Num(50, 1)
    /\ txn_file \in ScenarioTables
    /\ rate_file \in ScenarioRates

\* C11: in the scenario of 100 USD legitimate, 50 EUR legitimate at rate 2
\* and 10 EUR fraudulent on a date without a rate row, the normalized output
\* has exactly two rows, with amounts 100 and 25, and the fraud bundle
\* reports a total volume of 125 and a fraud loss of 0.
C11_ScenarioTotals ==
    IsScenario =>
        /\ Out.status = "ok" =>
              /\ Len(Out.table) = 2
              /\ {Out.table[k].amount_usd : k \in 1..Len(Out.table)} =
                    {Num(100, 1), Num(25, 1)}
        /\ (object = "FraudAnalyzer" /\ metrics.status = "ok") =>
              /\ metrics.financial.total_transaction_volume_usd = Num(125, 1)
              /\ metrics.financial.total_fraud_loss_usd = Zero

\* the fraud bundle of the scenario has been computed
C11_Witness ==
    /\ IsScenario
    /\ object = "FraudAnalyzer"
    /\ metrics.status = "ok"
    /\ Len(fraud.df_usd) = 2
    /\ metrics.operational.fraud_transactions = 0

\* the fraud bundle of this run has been computed
FraudBundle == object = "FraudAnalyzer" /\ metrics.status = "ok"

\* the rows of the normalized table of the fraud analyzer whose key is g
GroupOf(key, g) == {k \in 1..Len(fraud.df_usd) : fraud.df_usd[k][key] = g}

FraudIn(S) == {k \in S : fraud.df_usd[k].is_fraud = TRUE}

RECURSIVE AmountTotal(_)
AmountTotal(S) ==
    IF S = {} THEN Zero
    ELSE LET k == CHOOSE x \in S : TRUE
         IN  FloatAdd(fraud.df_usd[k].amount_usd, AmountTotal(S \ {k}))

\* the tables of the two grouped reducers: the country table as the bundle
\* lists it, the vendor-category table of the normalized table
ReducerTables ==
    << [key |-> "country", stats |-> metrics.geographic_risk.top_risk_countries],
       [key |-> "vendor_category", stats |-> vendor_analysis(fraud.df_usd)] >>

InUnit(x) == x.d > 0 /\ 0 <= x.n /\ x.n <= x.d

\* the rows of the normalized table of the fraud analyzer with flag set or not
FlagRows(flag, value) ==
    {k \in 1..Len(fraud.df_usd) : fraud.df_usd[k][flag] = value}

\* C13: the fraud rate of every non-empty group is in [0, 1]: the rate of
\* every country, vendor category, device, channel and hour present, in the
\* bundle and in the series behind the risk scores, and the rate of either
\* side of the night, card-present and high-risk-vendor partitions that has
\* a row.
C13_FraudRateInUnitInterval ==
    /\ FraudBundle =>
          /\ \A g \in DOMAIN metrics.geographic_risk.top_risk_countries :
                InUnit(metrics.geographic_risk.top_risk_countries[g].fraud_rate)
          /\ \A g \in DOMAIN vendor_analysis(fraud.df_usd) :
                InUnit(vendor_analysis(fraud.df_usd)[g].fraud_rate)
          /\ \A g \in DOMAIN hourly_fraud(fraud.df_usd) :
                InUnit(hourly_fraud(fraud.df_usd)[g].mean)
          /\ \A g \in DOMAIN device_fraud(fraud.df_usd) :
                InUnit(device_fraud(fraud.df_usd)[g].mean)
          /\ \A g \in DOMAIN channel_fraud(fraud.df_usd) :
                InUnit(channel_fraud(fraud.df_usd)[g].mean)
          /\ InUnit(metrics.temporal_patterns.peak_fraud_rate)
          /\ InUnit(metrics.vendor_risk.riskiest_category_fraud_rate)
          /\ InUnit(metrics.device_channel.riskiest_device_fraud_rate)
          /\ InUnit(metrics.device_channel.riskiest_channel_fraud_rate)
          /\ FlagRows("is_night", TRUE) # {} =>
                InUnit(metrics.temporal_patterns.night_fraud_rate)
          /\ FlagRows("is_night", FALSE) # {} =>
                InUnit(metrics.temporal_patterns.day_fraud_rate)
          /\ FlagRows("is_card_present", TRUE) # {} =>
                InUnit(metrics.device_channel.card_present_fraud_rate)
          /\ FlagRows("is_card_present", FALSE) # {} =>
                InUnit(metrics.device_channel.card_not_present_fraud_rate)
          /\ FlagRows("is_high_risk_vendor", TRUE) # {} =>
                InUnit(metrics.vendor_risk.high_risk_vendor_fraud_rate)
          /\ FlagRows("is_high_risk_vendor", FALSE) # {} =>
                InUnit(metrics.vendor_risk.low_risk_vendor_fraud_rate)
    /\ (object = "FraudAnalyzer" /\ risk_scores.status = "ok") =>
          \A series \in DOMAIN risk_scores.rates :
              \A g \in DOMAIN risk_scores.rates[series] :
                  InUnit(risk_scores.rates[series][g])

\* two of the three night rows are fraudulent, there is no day row, and both
\* the bundle and the risk scores have been computed
C13_Witness ==
    /\ FraudBundle
    /\ risk_scores.status = "ok"
    /\ Cardinality(FlagRows("is_night", TRUE)) = 3
    /\ FlagRows("is_night", FALSE) = {}
    /\ metrics.temporal_patterns.night_fraud_rate = Num(667, 1000)
    /\ metrics.temporal_patterns.day_fraud_rate = NaN
    /\ \E g \in DOMAIN risk_scores.rates.country_fraud_rates :
          risk_scores.rates.country_fraud_rates[g] = Num(1, 2)

\* the sum of the column name of a table of group statistics
RECURSIVE CountTotal(_, _)
CountTotal(stats, name) ==
    IF DOMAIN stats = {} THEN 0
    ELSE LET g == CHOOSE x \in DOMAIN stats : TRUE
         IN  stats[g][name] + CountTotal([h \in DOMAIN stats \ {g} |-> stats[h]], name)

\* C14: the counts of the parts of every complete partition of the
\* normalized table sum to its transaction count, which the bundle reports:
\* fraud and legitimate, night and day, card present or not, high-risk
\* vendor or not, the groups of every grouping key, and, for the business
\* analyzer, weekend and weekday.
C14_PartitionCountsSumToTotal ==
    /\ FraudBundle =>
          LET df_usd == fraud.df_usd
              total == metrics.operational.total_transactions
          IN  /\ total = Len(df_usd)
              /\ Len(FraudRows(df_usd)) + Len(LegitRows(df_usd)) = total
              /\ metrics.operational.fraud_transactions + Len(LegitRows(df_usd)) = total
              /\ Len(NightTransactions(df_usd)) + Len(DayTransactions(df_usd)) = total
              /\ Cardinality(FlagRows("is_card_present", TRUE))
                    + Cardinality(FlagRows("is_card_present", FALSE)) = total
              /\ Cardinality(FlagRows("is_high_risk_vendor", TRUE))
                    + Cardinality(FlagRows("is_high_risk_vendor", FALSE)) = total
              /\ CountTotal(metrics.geographic_risk.top_risk_countries,
                            "total_transactions") = total
              /\ CountTotal(vendor_analysis(df_usd), "total_transactions") = total
              /\ CountTotal(hourly_fraud(df_usd), "count") = total
              /\ CountTotal(device_fraud(df_usd), "count") = total
              /\ CountTotal(channel_fraud(df_usd), "count") = total
    /\ (object = "BusinessInsightsAnalyzer" /\ business.status = "ok") =>
          LET df_usd == business.df_usd
              legit_df == LegitRows(df_usd)
          IN  /\ Len(FraudRows(df_usd)) + Len(legit_df) = Len(df_usd)
              /\ Len(WeekendTransactions(df_usd)) + Len(WeekdayTransactions(df_usd))
                    = Len(df_usd)
              /\ Len(WeekendTransactions(legit_df)) + Len(WeekdayTransactions(legit_df))
                    = Len(legit_df)

\* a bundle over three rows with fraud and legitimate, night and day rows
\* and two groups of every key
C14_Witness ==
    /\ FraudBundle
    /\ metrics.operational.total_transactions = 3
    /\ metrics.operational.fraud_transactions = 1
    /\ Len(NightTransactions(fraud.df_usd)) = 2
    /\ Cardinality(DOMAIN metrics.geographic_risk.top_risk_countries) = 2
    /\ Cardinality(DOMAIN vendor_analysis(fraud.df_usd)) = 2
    /\ Cardinality(DOMAIN device_fraud(fraud.df_usd)) = 2

\* C15 as stated: a zero or empty denominator never makes the computation
\* of a bundle raise; the nan or inf of the division is in the bundle: no
\* legitimate rows give a nan amount multiplier, no day rows a nan risk
\* ratio, a day rate of 0 under a positive night rate an infinite one.
C15_Original ==
    /\ metrics.status # "ZeroDivisionError"
    /\ FraudBundle =>
          /\ LegitRows(fraud.df_usd) = <<>> =>
                metrics.financial.fraud_amount_multiplier = NaN
          /\ DayTransactions(fraud.df_usd) = <<>> =>
                metrics.temporal_patterns.night_vs_day_risk_ratio = NaN
          /\ ( /\ metrics.temporal_patterns.day_fraud_rate = Zero
               /\ FloatLess(Zero, metrics.temporal_patterns.night_fraud_rate) ) =>
                metrics.temporal_patterns.night_vs_day_risk_ratio = Num(1, 0)

\* the group keys in the order Python compares strings
KeysInOrder == <<"A", "B", "Chrome", "NFC Payment", "pos", "v1", "v2", "web">>

KeyBefore(a, b) ==
    \E i, j \in 1..Len(KeysInOrder) :
        i < j /\ KeysInOrder[i] = a /\ KeysInOrder[j] = b

\* order lists the groups by column descending, equal values by key
RankedWithKeyTieBreak(order, column) ==
    \A i, j \in 1..Len(order) :
        i < j =>
            \/ FloatLess(column[order[j]], column[order[i]])
            \/ column[order[j]] = column[order[i]] /\ KeyBefore(order[i], order[j])

BusinessBundle ==
    /\ object = "BusinessInsightsAnalyzer"
    /\ metrics.status = "ok"
    /\ locals.method = "calculate_business_growth_metrics"

\* the legitimate transactions the normalization keeps, and their dates
LegitKept == Convertible \ FraudTxns

DateOfTxn(i) == txn_file[i].timestamp \div HoursPerDay

LegitDates == {DateOfTxn(i) : i \in LegitKept}

\* the first and the last seven of the dates
FirstSeven == {d \in LegitDates : Cardinality({e \in LegitDates : e < d}) < 7}

LastSeven == {d \in LegitDates : Cardinality({e \in LegitDates : e > d}) < 7}

\* the daily value of a date: the volume and the number of its transactions
DailyVolume(d) == UsdTotal({i \in LegitKept : DateOfTxn(i) = d})

DailyCount(d) == Num(Cardinality({i \in LegitKept : DateOfTxn(i) = d}), 1)

RECURSIVE VolumeOver(_)
VolumeOver(S) ==
    IF S = {} THEN Zero
    ELSE LET d == CHOOSE x \in S : TRUE
         IN  FloatAdd(DailyVolume(d), VolumeOver(S \ {d}))

RECURSIVE CountOver(_)
CountOver(S) ==
    IF S = {} THEN Zero
    ELSE LET d == CHOOSE x \in S : TRUE
         IN  FloatAdd(DailyCount(d), CountOver(S \ {d}))

\* 100 * (L - F) / F
Growth(F, L) == FloatMul(FloatDiv(FloatSub(L, F), F), Num(100, 1))

\* C17: the volume and the transaction growth rates are 100 * (L - F) / F,
\* F the mean of the daily value over the first seven distinct dates of the
\* legitimate transactions and L the mean over the last seven; the bundle
\* reports them rounded to two decimals.
C17_GrowthFirstAndLastSevenDates ==
    BusinessBundle =>
        LET first == Num(Cardinality(FirstSeven), 1)
            last == Num(Cardinality(LastSeven), 1)
            volume == Growth(FloatDiv(VolumeOver(FirstSeven), first),
                             FloatDiv(VolumeOver(LastSeven), last))
            count == Growth(FloatDiv(CountOver(FirstSeven), first),
                            FloatDiv(CountOver(LastSeven), last))
        IN  /\ locals.volume_growth_rate = volume
            /\ locals.transaction_growth_rate = count
            /\ metrics.business_growth.volume_growth_rate_percentage = round(volume, 2)
            /\ metrics.business_growth.transaction_growth_rate_percentage =
                  round(count, 2)

\* eight dates listed backwards, the first of 100 in one purchase and the
\* last of 120 in two: the volume grows by 20/7 of the first mean of 100 and
\* the count by 1/7 of the first mean of 1
C17_Witness ==
    /\ BusinessBundle
    /\ Cardinality(LegitDates) = 8
    /\ DateOfTxn(1) = 8
    /\ \A d \in 1..7 : DailyVolume(d) = Num(100, 1)
    /\ DailyVolume(8) = Num(120, 1)
    /\ locals.volume_growth_rate = Num(20, 7)
    /\ locals.transaction_growth_rate = Num(100, 7)
    /\ metrics.business_growth.volume_growth_rate_percentage = Num(286, 100)

\* the k-th smallest of the amounts of the file, which are all different;
\* with the quantile inputs it is also the k-th smallest merchant count
Smallest(k) ==
    LET i == CHOOSE a \in Txns :
                 Cardinality({b \in Txns :
                                 FloatLess(txn_file[b].amount, txn_file[a].amount)}) = k - 1
    IN  txn_file[i].amount

\* the quantile qn / qd of the n amounts: with h = (n - 1) * qn / qd, the
\* value at position floor(h) plus (h - floor(h)) times the step to the
\* value at position ceil(h), positions counted from 0
Interpolated(qn, qd) ==
    LET n == Len(txn_file)
        floor == ((n - 1) * qn) \div qd
        ceil == IF ((n - 1) * qn) % qd = 0 THEN floor ELSE floor + 1
        weight == FloatSub(Num((n - 1) * qn, qd), Num(floor, 1))
    IN  FloatAdd(Smallest(floor + 1),
                 FloatMul(weight, FloatSub(Smallest(ceil + 1), Smallest(floor + 1))))

\* the amounts of the file are 1, 2, .., 10
OneToTen ==
    /\ Len(txn_file) = 10
    /\ {txn_file[i].amount : i \in Txns} = {Num(v, 1) : v \in 1..10}

\* C18: the quantile the analyzers compute is the linear interpolation
\* between the order statistics at the positions floor((n - 1) q) and
\* ceil((n - 1) q): the 0.9 quantile of customer spending (vip_threshold)
\* and the 0.95 quantile of the customers' median merchant counts
\* (quantile_95); the 0.9 quantile of 1, 2, .., 10 is 9.1.
C18_QuantileLinearInterpolation ==
    /\ BusinessBundle =>
          /\ locals.vip_threshold = Interpolated(9, 10)
          /\ OneToTen => locals.vip_threshold = Num(91, 10)
    /\ (FraudBundle /\ locals.method = "calculate_key_business_metrics") =>
          locals.quantile_95 = Interpolated(95, 100)

\* the 0.9 quantile of the spending 1, 2, .., 10, listed backwards, is 9.1
C18_Witness ==
    /\ BusinessBundle
    /\ OneToTen
    /\ txn_file[1].amount = Num(10, 1)
    /\ locals.vip_threshold = Num(91, 10)

\* C19 as stated: a call of a metric method, which is every step of a
\* constructed analyzer, leaves the files, the loaded tables df and
\* exchange_df and the normalized table df_usd as they were: same rows, same
\* columns, same values.
C19_Original ==
    [][ /\ txn_file' = txn_file
        /\ rate_file' = rate_file
        /\ fraud.status = "ok" => fraud' = fraud
        /\ business.status = "ok" => business' = business ]_vars

\* an input file is missing when the script starts
MissingFile ==
    /\ object \in Scripts
    /\ ~run.transaction_exists \/ ~run.exchange_exists

\* the report of the first missing path
MissingReport ==
    IF ~run.transaction_exists THEN NotFound("transaction_path")
    ELSE NotFound("exchange_path")

\* C20: when an input file is missing, main() is at one of its two tests or
\* has returned; it returns with the report of the missing file as the last
\* line printed; no analyzer is constructed, no bundle computed, no
\* directory made and no file written.
C20_MissingFileEndsRun ==
    MissingFile =>
        /\ run.pc \in {"check_transaction_path", "check_exchange_path", "returned"}
        /\ run.pc = "returned" => run.console = <<"banner", MissingReport>>
        /\ fraud = NoAnalyzer
        /\ business = NoAnalyzer
        /\ metrics.status = "none"
        /\ risk_scores.status = "none"
        /\ opportunities.status = "none"
        /\ locals = NoLocals
        /\ run.directories = {}
        /\ run.written = {}

\* the transactions are there, the exchange rates are not, and main() has
\* returned after its second test
C20_Witness ==
    /\ object = "run_comprehensive_analysis"
    /\ run.transaction_exists
    /\ ~run.exchange_exists
    /\ Len(txn_file) = 2
    /\ run.pc = "returned"
    /\ run.console = <<"banner", NotFound("exchange_path")>>
    /\ run.written = {}

\* the files save_results writes, in the order it writes them
FraudFiles ==
    {"results/business_metrics.json", "results/risk_scores.json",
     "results/executive_summary.md"}

\* the files save_business_insights writes
BusinessFiles ==
    {"results/business_insights.json", "results/business_executive_summary.md"}

\* a step of the try block has raised: main() is in its handler, or has
\* returned from it
RunFailed ==
    /\ object \in Scripts
    /\ \/ run.pc = "except"
       \/ run.pc = "returned" /\ "traceback" \in {run.console[k] : k \in DOMAIN run.console}

\* C21 as stated: a run whose computation or write step failed, the second
\* stage of the comprehensive run included, leaves no output file behind: it
\* wrote all of its files or none.
C21_Original == RunFailed => run.written = {}

\* a step of the try block raised an exception
StepRaised ==
    /\ object \in Scripts
    /\ \/ fraud.status \notin {"none", "ok"}
       \/ metrics.status \notin {"none", "ok"}
       \/ business.status \notin {"none", "ok"}
       \/ opportunities.status \notin {"none", "ok"}

\* the step that raised belongs to the fraud stage
FraudStageRaised ==
    \/ fraud.status \notin {"none", "ok"}
    \/ business.status = "none" /\ metrics.status \notin {"none", "ok"}

\* C22 as stated: a failed computation step is not caught by the program;
\* main() never enters an exception handler and never returns normally
\* after a failure.
C22_Original == StepRaised => ~RunFailed

\* C22: a failure of a computation step is caught by the except clause of
\* main(), and only there: control goes from the failing step straight to
\* the handler, which prints the error message and the full trace, after
\* which main() returns normally.  No result printout and no later stage is
\* executed: after a failure of the fraud stage no business analyzer is
\* built and no file is written, after a failure of the business stage the
\* files are those of the fraud stage.
C22_FailureCaughtByMain ==
    /\ RunFailed <=> StepRaised
    /\ StepRaised =>
         /\ run.pc = "returned" => run.console = <<"banner", "error", "traceback">>
         /\ run.pc = "except" => run.console = <<"banner">>
         /\ IF FraudStageRaised
            THEN /\ business = NoAnalyzer
                 /\ opportunities.status = "none"
                 /\ risk_scores.status = "none"
                 /\ run.written = {}
            ELSE /\ object = "run_comprehensive_analysis"
                 /\ run.written = FraudFiles

\* run_analysis.py on one EUR purchase without any rate: the normalized
\* table is empty, the metrics raise, the handler has printed and main()
\* has returned
C22_Witness ==
    /\ object = "run_analysis"
    /\ Len(txn_file) = 1
    /\ fraud.status = "ok"
    /\ fraud.df_usd = <<>>
    /\ metrics.status = "ZeroDivisionError"
    /\ run.pc = "returned"
    /\ run.console = <<"banner", "error", "traceback">>
    /\ run.written = {}

\* a == b on Python floats: false when either is nan
FloatEq(a, b) == a # NaN /\ b # NaN /\ a = b

\* the written Python value and the parsed one hold equal numbers at the
\* same places: every member, element and number of the first is in the
\* second, under its key as text, and compares equal (==) to it
RECURSIVE NumericallyEqual(_, _)
NumericallyEqual(written, parsed) ==
    CASE written.py \in {"float", "int"} ->
            /\ parsed.py \in {"float", "int"}
            /\ IF written.py = "int" /\ parsed.py = "int"
               THEN written.value = parsed.value
               ELSE FloatEq(IF written.py = "int" THEN Num(written.value, 1)
                            ELSE written.value,
                            IF parsed.py = "int" THEN Num(parsed.value, 1)
                            ELSE parsed.value)
      [] written.py = "str" -> parsed = written
      [] written.py = "list" ->
            /\ parsed.py = "list"
            /\ DOMAIN parsed.items = DOMAIN written.items
            /\ \A k \in DOMAIN written.items :
                  NumericallyEqual(written.items[k], parsed.items[k])
      [] written.py = "dict" ->
            /\ parsed.py = "dict"
            /\ DOMAIN parsed.items = {KeyText(written.keys, k) : k \in DOMAIN written.items}
            /\ \A k \in DOMAIN written.items :
                  NumericallyEqual(written.items[k],
                                   parsed.items[KeyText(written.keys, k)])

\* as NumericallyEqual, but a nan is only required to come back as a float
\* nan, and every number keeps its type
RECURSIVE EqualOrBothNaN(_, _)
EqualOrBothNaN(written, parsed) ==
    CASE written.py = "float" ->
            /\ parsed.py = "float"
            /\ IF written.value = NaN THEN parsed.value = NaN
               ELSE FloatEq(written.value, parsed.value)
      [] written.py \in {"int", "str"} -> parsed = written
      [] written.py = "list" ->
            /\ parsed.py = "list"
            /\ DOMAIN parsed.items = DOMAIN written.items
            /\ \A k \in DOMAIN written.items :
                  EqualOrBothNaN(written.items[k], parsed.items[k])
      [] written.py = "dict" ->
            /\ parsed.py = "dict"
            /\ parsed.keys = "str"
            /\ DOMAIN parsed.items = {KeyText(written.keys, k) : k \in DOMAIN written.items}
            /\ \A k \in DOMAIN written.items :
                  EqualOrBothNaN(written.items[k],
                                 parsed.items[KeyText(written.keys, k)])

\* the bundles this run has written, each with the text of its file: the
\* fraud bundle until the business stage computes its own, the risk scores,
\* and the dashboard
WrittenBundles ==
    (IF /\ run.files.business_metrics # NoFile
        /\ locals.method = "calculate_key_business_metrics"
     THEN {<<FraudMetricsObject(metrics), run.files.business_metrics>>} ELSE {})
    \cup
    (IF run.files.risk_scores # NoFile
     THEN {<<RiskScoresObject(risk_scores.scores), run.files.risk_scores>>} ELSE {})
    \cup
    (IF run.files.business_insights # NoFile
     THEN {<<DashboardObject(metrics, opportunities), run.files.business_insights>>}
     ELSE {})

C24_Original ==
    (object = "DataLoader" /\ loader_out.status # "none") =>
        /\ loader.stage = "preprocessed"
        /\ loader_out.status # "KeyError: date"

\* what a normalized table says of the transactions: which are kept, once
\* per rate row matched, and the amount_usd of each
Amounts(table) ==
    [k \in 1..Len(table) |->
        [txn |-> table[k].txn, rate_row |-> table[k].rate_row,
         amount_usd |-> table[k].amount_usd]]

\* the three normalizers on the files of this run: DataLoader.convert_to_usd
\* on a loader it has preprocessed, and the two analyzers' _convert_to_usd
\* on the tables of their _prepare_data
Normalized ==
    LET l == Preprocessed(NewLoader)
    IN  [DataLoader |-> LoaderConvert(l.df, l.exchange_df),
         FraudAnalyzer |->
            [status |-> FraudAnalyzerNew.status, table |-> FraudAnalyzerNew.df_usd],
         BusinessInsightsAnalyzer |->
            [status |-> BusinessInsightsAnalyzerNew.status,
             table |-> BusinessInsightsAnalyzerNew.df_usd]]

\* C25: whichever normalizer has run on the files, the other two give the
\* same outcome on them: the same transactions kept, in the same order and
\* as many times, each with the same amount_usd, or the same exception.
\* (DataLoader.convert_to_usd is taken on a preprocessed loader.)
C25_NormalizersEquivalent ==
    Out.status \notin {"none", "KeyError: date"} =>
        \A other \in Objects :
            /\ Normalized[other].status = Out.status
            /\ Amounts(Normalized[other].table) = Amounts(Out.table)

\* the business analyzer has normalized a USD purchase and a EUR purchase of
\* day 1 with a rate of 4: 100 and 25, as the other two do
C25_Witness ==
    /\ object = "BusinessInsightsAnalyzer"
    /\ business.status = "ok"
    /\ Len(txn_file) = 2
    /\ Len(rate_file) = 2
    /\ \E k \in 1..Len(business.df_usd) : business.df_usd[k].amount_usd = Num(25, 1)
    /\ \E k \in 1..Len(business.df_usd) :
          /\ business.df_usd[k].currency = "USD"
          /\ business.df_usd[k].amount_usd = Num(100, 1)
    /\ Amounts(Normalized["DataLoader"].table) = Amounts(business.df_usd)
    /\ Amounts(Normalized["FraudAnalyzer"].table) = Amounts(business.df_usd)

\* the three dimensions of generate_risk_scores: the name of the scores and
\* of the fraud-rate series they are computed from
RiskDimensions ==
    { <<"country_risk_scores", "country_fraud_rates">>,
      <<"hourly_risk_scores", "hourly_fraud_rates">>,
      <<"vendor_category_risk_scores", "vendor_fraud_rates">> }

\* 0 <= x <= 100
InScoreRange(x) == x # NaN /\ ~FloatLess(x, Zero) /\ ~FloatLess(Num(100, 1), x)

\* every score of the dimension is in [0, 100] and every group of the
\* highest fraud rate has the score 100
ScoresScaled(dim) ==
    LET scores == risk_scores.scores[dim[1]]
        rates == risk_scores.rates[dim[2]]
    IN  /\ DOMAIN scores = DOMAIN rates
        /\ \A g \in DOMAIN scores :
              /\ InScoreRange(scores[g])
              /\ (\A o \in DOMAIN rates : ~FloatLess(rates[g], rates[o]))
                    => scores[g] = Num(100, 1)

C27_SameBundleEveryCall ==
    [][ (object = "FraudAnalyzer" /\ locals.method = "calculate_key_business_metrics")
            => metrics' = metrics ]_vars

\* the analyzer has returned a bundle from a table that already holds the
\* column added by a call, with two devices of the same fraud rate ranked,
\* and the risk scores have been generated
C27_Witness ==
    /\ object = "FraudAnalyzer"
    /\ locals.method = "calculate_key_business_metrics"
    /\ metrics.status = "ok"
    /\ risk_scores.status = "ok"
    /\ Len(fraud.df_usd) = 3
    /\ \A k \in 1..Len(fraud.df_usd) : "unique_merchants" \in DOMAIN fraud.df_usd[k]
    /\ locals.device_fraud = <<"NFC Payment", "Chrome">>
    /\ device_fraud(fraud.df_usd)["Chrome"].mean = device_fraud(fraud.df_usd)["NFC Payment"].mean
    /\ metrics.behavioral.median_unique_merchants_95th_percentile = Num(2, 1)

\* C28: a call of get_basic_stats, which is every step of a loader that
\* changes the statistics returned or their argument, leaves the loader as
\* it was, nothing loaded or preprocessed; without an argument on a loader
\* that has not loaded it raises ValueError, without one on a loaded loader
\* it returns the statistics of the loader's table, and with a table it
\* returns the statistics of that table.
C28_BasicStatsOfArgument ==
    [][ (object = "DataLoader" /\ <<metrics, locals>>' # <<metrics, locals>>) =>
            /\ loader' = loader
            /\ loader_out' = loader_out
            /\ locals'.method = "get_basic_stats"
            /\ metrics' = IF locals'.df.given THEN BasicStats(locals'.df.table)
                          ELSE IF loader.stage = "None" THEN [status |-> "ValueError"]
                          ELSE BasicStats(loader.df) ]_vars

\* get_basic_stats() has raised on a loader that has loaded nothing, and
\* the loader still has loaded nothing
C28_Witness ==
    /\ object = "DataLoader"
    /\ locals.method = "get_basic_stats"
    /\ ~locals.df.given
    /\ metrics.status = "ValueError"
    /\ loader = NewLoader
    /\ loader_out = NoResult
    /\ Len(txn_file) = 3

====
